---------------------------- MODULE Spec2Model ----------------------------
(***************************************************************************)
(* Model of the monitoring / retraining-decision core of the repository    *)
(* (src/src/data_monitoring.py) together with the log sink it writes to    *)
(* (src/src/database_logging.py), its callers (src/src/api.py, main) and   *)
(* the training pipeline that rewrites the baseline metrics file.          *)
(*                                                                         *)
(* Numbers: p-values, RMSE, R2 and the thresholds are fixed-point, in      *)
(* hundredths (0.05 is 5, 0.1 is 10).  The clock counts units of which     *)
(* UnitsPerDay make one day.  The results of the library routines the      *)
(* code calls (scipy ks_2samp, the sklearn metrics) are inputs of the      *)
(* calls: a value, or the fact that the routine raised.                    *)
(***************************************************************************)
EXTENDS Integers, Sequences, FiniteSets, Bags, TLC

VARIABLES
    config,                \* RetrainingTrigger.config
    reference_data,        \* DataDriftDetector.reference_data
    baseline_metrics,      \* ModelPerformanceMonitor.baseline_metrics
    performance_threshold, \* ModelPerformanceMonitor.performance_threshold
    metrics_file,          \* the file models/best_model_metrics.json
    trigger_file,          \* the file triggers/retrain_model.trigger
    now,                   \* the clock read by datetime.now()
    logs,                  \* the sink's logs table
    model_metrics,         \* the sink's model_metrics table
    call,                  \* the public operation invoked last and its inputs
    result,                \* what that operation gave back to its caller
    steps,                 \* should_retrain: the decision's should_retrain after each step
    decided,               \* whether a should_retrain call has returned should_retrain = true
    api_metrics,           \* the sink's api_metrics table
    model,                 \* api.py: the global model
    scaler,                \* api.py: the global scaler
    feature_names,         \* api.py: the global feature_names
    prometheus,            \* api.py: the Prometheus counters of /predict
    threads,               \* the calls in progress on the server's worker threads
    lock                   \* InMemoryDatabaseLogger.lock: the thread holding it, or None

\* the state of the serving layer, and that of its worker threads
api_state == <<api_metrics, model, scaler, feature_names, prometheus>>
thread_state == <<threads, lock>>

vars == <<config, reference_data, baseline_metrics, performance_threshold,
          metrics_file, trigger_file, now, logs, model_metrics, call, result, steps,
          decided, api_state, thread_state>>

-----------------------------------------------------------------------------
(* Bounds of the model *)

NumCols == 5        \* columns a batch or the reference dataset can have
MaxRows == 2        \* rows of a new batch
MaxPairs == 2       \* length of a predictions / actuals list
MaxAge == 4         \* clock units between the training timestamp and now
UnitsPerDay == 2    \* clock units in one day
MaxLogs == 1        \* a public operation starts only with fewer rows in the sink

(* Program constants *)

DefaultDriftThreshold == 5          \* 0.05
DefaultPerformanceThreshold == 10   \* 0.1
DefaultMinSamples == 100
DefaultMaxDays == 30
DetectDriftDefaultThreshold == 5    \* 0.05, the default of detect_drift's parameter
MonitorDefaultThreshold == 10       \* 0.1, the default of ModelPerformanceMonitor
OverallDriftPercent == 20           \* 0.2 * len(new_data.columns)

-----------------------------------------------------------------------------
(* Values *)

None == [None |-> TRUE]

\* the elements of a set of numbers in ascending order
SortedSeq(S) ==
    [i \in 1..Cardinality(S) |-> CHOOSE x \in S : Cardinality({y \in S : y < x}) = i - 1]

\* the value of a one-element set
The(S) == CHOOSE x \in S : TRUE

Range(s) == {s[i] : i \in 1..Len(s)}

\* dict.get(key, default) on a record
Get(d, key, default) == IF key \in DOMAIN d THEN d[key] ELSE default

Columns == 1..NumCols

\* what ks_2samp gives for a column: a p-value, or KsRaises when it raises
KsRaises == -1
PValues == {4, 5, 10}
KsOutcomes == PValues \cup {KsRaises}

\* a DataFrame: its row count and, per column, what the KS test against the
\* reference column gives; the columns are in ascending order
DataFrames(colsets, rows) ==
    UNION {[rows : rows, ks : [cols -> KsOutcomes]] : cols \in colsets}

-----------------------------------------------------------------------------
(* DataDriftDetector *)

\* "drifted": bool(p_value < threshold)
DriftFlagLe(p_value, threshold) == p_value <= threshold
DriftFlag(p_value, threshold) == p_value < threshold

\* if p_value < threshold: drifted_features.append(column)
AppendsDrifted(p_value, threshold) == p_value < threshold

\* len(drifted_features) > 0.2 * len(new_data.columns); the product is exact
\* or rounds up in floating point, so the comparison is the one on integers
OverallDrift(n_drifted, new_data) ==
    100 * n_drifted > OverallDriftPercent * Cardinality(DOMAIN new_data.ks)

\* one pass of the loop over new_data.columns
DriftColumn(column, reference, new_data, threshold, acc) ==
    IF column \notin reference.columns THEN acc
    ELSE IF new_data.ks[column] = KsRaises THEN [acc EXCEPT !.raised = TRUE]
    ELSE LET p_value == new_data.ks[column]
         IN [acc EXCEPT
                !.drift_scores = (column :> [p_value |-> p_value,
                                             drifted |-> DriftFlag(p_value, threshold)]) @@ @,
                !.drifted_features = IF AppendsDrifted(p_value, threshold)
                                     THEN Append(@, column) ELSE @]

\* the loop over new_data.columns, until a column's test raises
RECURSIVE DriftLoop(_, _, _, _, _)
DriftLoop(cols, reference, new_data, threshold, acc) ==
    IF cols = <<>> \/ acc.raised THEN acc
    ELSE The({DriftLoop(Tail(cols), reference, new_data, threshold, a) :
                a \in {DriftColumn(Head(cols), reference, new_data, threshold, acc)}})

\* the report built after the reference check: the loop in its try block
drift_results_running_flag(reference, new_data, threshold) ==
    The({IF loop.raised
         THEN [total_features |-> Cardinality(DOMAIN new_data.ks),
               drifted_features |-> loop.drifted_features,
               drift_scores |-> loop.drift_scores,
               overall_drift |-> OverallDrift(Len(loop.drifted_features), new_data),
               error |-> "ks_2samp raised"]
         ELSE [total_features |-> Cardinality(DOMAIN new_data.ks),
               drifted_features |-> loop.drifted_features,
               drift_scores |-> loop.drift_scores,
               overall_drift |-> OverallDrift(Len(loop.drifted_features), new_data)] :
         loop \in {DriftLoop(SortedSeq(DOMAIN new_data.ks), reference, new_data,
                             threshold,
                             [drifted_features |-> <<>>, drift_scores |-> <<>>,
                              raised |-> FALSE])}})
drift_results(reference, new_data, threshold) ==
    The({IF loop.raised
         THEN [total_features |-> Cardinality(DOMAIN new_data.ks),
               drifted_features |-> loop.drifted_features,
               drift_scores |-> loop.drift_scores,
               overall_drift |-> FALSE,
               error |-> "ks_2samp raised"]
         ELSE [total_features |-> Cardinality(DOMAIN new_data.ks),
               drifted_features |-> loop.drifted_features,
               drift_scores |-> loop.drift_scores,
               overall_drift |-> OverallDrift(Len(loop.drifted_features), new_data)] :
         loop \in {DriftLoop(SortedSeq(DOMAIN new_data.ks), reference, new_data,
                             threshold,
                             [drifted_features |-> <<>>, drift_scores |-> <<>>,
                              raised |-> FALSE])}})

\* detect_drift: the error marker without reference data, else the report
detect_drift_unguarded(reference, new_data, threshold) ==
    IF reference = None
    THEN [total_features |-> Cardinality(DOMAIN new_data.ks),
          drifted_features |-> <<>>, drift_scores |-> <<>>, overall_drift |-> FALSE,
          error |-> "AttributeError: 'NoneType' object has no attribute 'columns'"]
    ELSE drift_results(reference, new_data, threshold)
detect_drift(reference, new_data, threshold) ==
    IF reference = None
    THEN [error |-> "Reference data not available"]
    ELSE drift_results(reference, new_data, threshold)

-----------------------------------------------------------------------------
(* The log sink: InMemoryDatabaseLogger and DatabaseLogHandler *)

\* db_logger.log_message: one row more in the logs table
log_message(table, level, module, message, extra_data) ==
    Append(table, [level |-> level, module |-> module, message |-> message,
                   extra_data |-> extra_data])

\* db_logger.log_model_metric: one row more in the model_metrics table
log_model_metric_per_metric(table, model_name, model_type, rmse, r2_score) ==
    Append(Append(table, [model_name |-> model_name, model_type |-> "rmse",
                          rmse |-> rmse, r2_score |-> r2_score]),
           [model_name |-> model_name, model_type |-> "r2",
            rmse |-> rmse, r2_score |-> r2_score])
log_model_metric(table, model_name, model_type, rmse, r2_score) ==
    Append(table, [model_name |-> model_name, model_type |-> model_type,
                   rmse |-> rmse, r2_score |-> r2_score])

\* logger.info / warning / error of data_monitoring: DatabaseLogHandler.emit
\* stores the record with the logger's name and swallows a failing sink
emit(table, level, message, sink_ok) ==
    IF sink_ok
    THEN log_message(table, level, "data_monitoring", message, None)
    ELSE table

\* detect_drift with its logger calls: the report and the logs table after it
detect_drift_logged(reference, new_data, threshold, sink_ok, table) ==
    The({[ret |-> report,
          logs |-> IF "total_features" \notin DOMAIN report THEN table
                   ELSE IF "error" \in DOMAIN report
                   THEN emit(table, "ERROR", "Error in drift detection", sink_ok)
                   ELSE emit(table, "INFO", "Drift detection completed", sink_ok)] :
          report \in {detect_drift(reference, new_data, threshold)}})

-----------------------------------------------------------------------------
(* ModelPerformanceMonitor *)

\* what the sklearn metrics give for a batch: RMSE and R2, or SklearnRaises
SklearnRaises == [raises |-> TRUE]

\* a / b in floating point, kept as a fraction with a denominator >= 0;
\* a denominator 0 is inf (num > 0), -inf (num < 0) or nan (num = 0)
Div(a, b) == IF b < 0 THEN [num |-> -a, den |-> -b] ELSE [num |-> a, den |-> b]

\* ratio > threshold, the threshold in hundredths (nan > t is false)
Exceeds(ratio, threshold) == 100 * ratio.num > threshold * ratio.den

\* rmse_degradation > threshold or r2_degradation > threshold
DegradedInclusive(rmse_degradation, r2_degradation, threshold) ==
    \/ 100 * rmse_degradation.num >= threshold * rmse_degradation.den
    \/ 100 * r2_degradation.num >= threshold * r2_degradation.den
Degraded(rmse_degradation, r2_degradation, threshold) ==
    Exceeds(rmse_degradation, threshold) \/ Exceeds(r2_degradation, threshold)

\* load_baseline_metrics: the parsed file, or None
load_baseline_metrics(file) ==
    IF file.exists /\ file.parsable THEN file.json ELSE None

\* the try block up to the sink write: the report, or the exception
performance_metrics(baseline, threshold, n_samples, metrics, zero_div_raises) ==
    IF metrics = SklearnRaises
    THEN [error |-> "sklearn metric raised"]
    ELSE LET base == [rmse |-> metrics.rmse, r2 |-> metrics.r2, n_samples |-> n_samples]
         IN IF baseline = None
            THEN base
            ELSE IF "rmse" \notin DOMAIN baseline
            THEN [error |-> "KeyError rmse"]
            ELSE IF "r2" \notin DOMAIN baseline
            THEN [error |-> "KeyError r2"]
            ELSE IF baseline.r2 = 0 /\ zero_div_raises
            THEN [error |-> "ZeroDivisionError"]
            ELSE LET rmse_degradation == Div(metrics.rmse - baseline.rmse, baseline.rmse)
                     r2_degradation == Div(baseline.r2 - metrics.r2, baseline.r2)
                 IN [rmse |-> metrics.rmse, r2 |-> metrics.r2, n_samples |-> n_samples,
                     rmse_degradation |-> rmse_degradation,
                     r2_degradation |-> r2_degradation,
                     performance_degraded |->
                         Degraded(rmse_degradation, r2_degradation, threshold)]

\* evaluate_current_performance: what it returns and what it leaves in the sink
evaluate_current_performance(baseline, threshold, n_samples, metrics, env, sink) ==
    LET failed(e) == [ret |-> [error |-> e],
                      logs |-> emit(sink.logs, "ERROR", "Error evaluating performance",
                                    env.sink_ok),
                      model_metrics |-> sink.model_metrics]
    IN The({IF "error" \in DOMAIN report THEN failed(report.error)
            ELSE IF ~env.sink_ok THEN failed("sqlite3.OperationalError")
            ELSE [ret |-> report,
                  logs |-> emit(sink.logs, "INFO", "Performance evaluation", env.sink_ok),
                  model_metrics |-> log_model_metric(sink.model_metrics,
                                        "current_model_performance",
                                        "performance_monitoring", metrics.rmse, metrics.r2)] :
            report \in {performance_metrics(baseline, threshold, n_samples, metrics,
                                            env.zero_div_raises)}})

-----------------------------------------------------------------------------
(* RetrainingTrigger *)

default_config ==
    [drift_threshold |-> DefaultDriftThreshold,
     performance_threshold |-> DefaultPerformanceThreshold,
     min_samples_for_retraining |-> [number |-> DefaultMinSamples],
     max_days_since_last_training |-> DefaultMaxDays,
     enable_automatic_retraining |-> TRUE]

\* load_config: the file's keys over the defaults; the defaults when the file is
\* missing or does not parse
load_config_defaults_win(file) ==
    IF file.exists /\ file.parsable /\ "json" \in DOMAIN file
    THEN default_config @@ file.json
    ELSE default_config
load_config(file) ==
    IF file.exists /\ file.parsable /\ "json" \in DOMAIN file
    THEN file.json @@ default_config
    ELSE default_config

\* a reason of the decision
Reason(text) == [text |-> text]
ModelIsOld(days) == [text |-> "Model is N days old", N |-> days]

\* Python truth value and len() of a predictions / actuals argument
TruthyUnlessAbsent(arg) == arg.kind # "none"
Truthy(arg) == arg.kind = "scalar" \/ (arg.kind = "list" /\ arg.len > 0)
HasLen(arg) == arg.kind = "list"

\* an exception leaves the try block: the steps after it do not run
Raise(c, e) == [c EXCEPT !.raised = TRUE, !.exc = e]
Done(c) == [c EXCEPT !.steps = Append(c.steps, c.decision.should_retrain)]

\* 1. Check data drift
drift_step(self, new_data, env, c) ==
    IF new_data.rows > 0
    THEN The({LET fired == Get(out.ret, "overall_drift", FALSE)
              IN Done([c EXCEPT !.logs = out.logs,
                                !.decision.drift_analysis = out.ret,
                                !.decision.reasons =
                                    IF fired THEN Append(@, Reason("Data drift detected"))
                                    ELSE @,
                                !.decision.should_retrain = IF fired THEN TRUE ELSE @]) :
              out \in {detect_drift_logged(self.reference_data, new_data,
                                           self.config.drift_threshold, env.sink_ok,
                                           c.logs)}})
    ELSE Done(c)

\* 2. Check performance degradation
performance_step_short_circuit(self, predictions, actuals, metrics, env, c) ==
    IF c.decision.should_retrain \/ ~Truthy(predictions) \/ ~Truthy(actuals) THEN Done(c)
    ELSE IF ~HasLen(predictions) \/ ~HasLen(actuals)
    THEN Raise(c, "TypeError: object has no len()")
    ELSE IF predictions.len # actuals.len THEN Done(c)
    ELSE The({LET fired == Get(out.ret, "performance_degraded", FALSE)
              IN Done([c EXCEPT !.logs = out.logs,
                                !.model_metrics = out.model_metrics,
                                !.decision.performance_analysis = out.ret,
                                !.decision.reasons =
                                    IF fired
                                    THEN Append(@, Reason("Performance degradation detected"))
                                    ELSE @,
                                !.decision.should_retrain = IF fired THEN TRUE ELSE @]) :
              out \in {evaluate_current_performance(self.baseline_metrics,
                           self.performance_threshold, predictions.len, metrics, env,
                           [logs |-> c.logs, model_metrics |-> c.model_metrics])}})
performance_step(self, predictions, actuals, metrics, env, c) ==
    IF ~Truthy(predictions) \/ ~Truthy(actuals) THEN Done(c)
    ELSE IF ~HasLen(predictions) \/ ~HasLen(actuals)
    THEN Raise(c, "TypeError: object has no len()")
    ELSE IF predictions.len # actuals.len THEN Done(c)
    ELSE The({LET fired == Get(out.ret, "performance_degraded", FALSE)
              IN Done([c EXCEPT !.logs = out.logs,
                                !.model_metrics = out.model_metrics,
                                !.decision.performance_analysis = out.ret,
                                !.decision.reasons =
                                    IF fired
                                    THEN Append(@, Reason("Performance degradation detected"))
                                    ELSE @,
                                !.decision.should_retrain = IF fired THEN TRUE ELSE @]) :
              out \in {evaluate_current_performance(self.baseline_metrics,
                           self.performance_threshold, predictions.len, metrics, env,
                           [logs |-> c.logs, model_metrics |-> c.model_metrics])}})

\* len(new_data) >= config["min_samples_for_retraining"]
SufficientData(new_samples, min_required) == new_samples >= min_required

\* 3. Check data volume
data_volume_blocks(self, new_data, c) ==
    LET min_required == self.config.min_samples_for_retraining
    IN IF "number" \notin DOMAIN min_required
       THEN Raise(c, "TypeError: '>=' not supported")
       ELSE LET sufficient == SufficientData(new_data.rows, min_required.number)
            IN Done([c EXCEPT !.decision.data_volume_check =
                                   [new_samples |-> new_data.rows,
                                    min_required |-> min_required.number,
                                    sufficient_data |-> sufficient],
                              !.decision.reasons =
                                   IF ~sufficient
                                   THEN Append(@, Reason("Insufficient new data for retraining"))
                                   ELSE @,
                              !.decision.should_retrain = IF ~sufficient THEN FALSE ELSE @])
data_volume_step(self, new_data, c) ==
    LET min_required == self.config.min_samples_for_retraining
    IN IF "number" \notin DOMAIN min_required
       THEN Raise(c, "TypeError: '>=' not supported")
       ELSE LET sufficient == SufficientData(new_data.rows, min_required.number)
            IN Done([c EXCEPT !.decision.data_volume_check =
                                   [new_samples |-> new_data.rows,
                                    min_required |-> min_required.number,
                                    sufficient_data |-> sufficient],
                              !.decision.reasons =
                                   IF ~sufficient
                                   THEN Append(@, Reason("Insufficient new data for retraining"))
                                   ELSE @])

\* (datetime.now() - last_training).days: whole days, rounded down
days_since(clock, last_training) == (clock - last_training) \div UnitsPerDay

\* days_since_training > config["max_days_since_last_training"]
IsStaleInclusive(days_since_training, max_days) == days_since_training >= max_days
IsStale(days_since_training, max_days) == days_since_training > max_days

\* 4. Check time since last training; the inner try swallows every failure
staleness_step(self, file, clock, env, c) ==
    IF ~file.exists THEN Done(c)
    ELSE IF ~file.parsable
    THEN Done([c EXCEPT !.logs = emit(@, "WARNING", "Could not check last training time",
                                      env.sink_ok)])
    ELSE LET stamp == Get(file.json, "training_timestamp", [iso |-> TRUE, t |-> clock])
         IN IF ~stamp.iso
            THEN Done([c EXCEPT !.logs = emit(@, "WARNING",
                                              "Could not check last training time",
                                              env.sink_ok)])
            ELSE LET days_since_training == days_since(clock, stamp.t)
                     fired == IsStale(days_since_training,
                                      self.config.max_days_since_last_training)
                 IN Done([c EXCEPT !.decision.reasons =
                                        IF fired THEN Append(@, ModelIsOld(days_since_training))
                                        ELSE @,
                                   !.decision.should_retrain = IF fired THEN TRUE ELSE @])

\* Final decision: the override by enable_automatic_retraining
final_decision_unconditional(self, c) ==
    Done([c EXCEPT !.decision.should_retrain =
                       IF ~self.config.enable_automatic_retraining THEN FALSE ELSE @,
                   !.decision.reasons =
                       IF ~self.config.enable_automatic_retraining
                       THEN Append(@, Reason("Automatic retraining is disabled")) ELSE @])
final_decision_step(self, c) ==
    LET overridden == c.decision.should_retrain /\ ~self.config.enable_automatic_retraining
    IN Done([c EXCEPT !.decision.should_retrain = IF overridden THEN FALSE ELSE @,
                      !.decision.reasons =
                          IF overridden
                          THEN Append(@, Reason("Automatic retraining is disabled")) ELSE @])

\* Log decision to database; db_logger.log_message raises when the sink fails
log_decision_step(self, env, c) ==
    IF ~env.sink_ok THEN Raise(c, "sqlite3.OperationalError")
    ELSE [c EXCEPT !.logs =
              emit(log_message(@, "INFO", "retraining_trigger", "Retraining decision",
                               [reasons |-> c.decision.reasons, config |-> self.config]),
                   "INFO", "Retraining decision", env.sink_ok)]

\* the except clause of should_retrain
except_clause_reraises(env, c) ==
    [c EXCEPT !.decision = [raised |-> c.exc],
              !.logs = emit(@, "ERROR", "Error in retraining decision", env.sink_ok)]
except_clause(env, c) ==
    [c EXCEPT !.decision = [error |-> c.exc] @@ c.decision,
              !.logs = emit(@, "ERROR", "Error in retraining decision", env.sink_ok)]

\* the decision record a call starts from
retraining_decision_kept(clock) ==
    [timestamp |-> clock, should_retrain |-> FALSE,
     reasons |-> <<Reason("Insufficient new data for retraining")>>,
     drift_analysis |-> None, performance_analysis |-> None, data_volume_check |-> None]
retraining_decision(clock) ==
    [timestamp |-> clock, should_retrain |-> FALSE, reasons |-> <<>>,
     drift_analysis |-> None, performance_analysis |-> None, data_volume_check |-> None]

\* should_retrain: the decision, the sink after it, and should_retrain after each step
should_retrain(self, file, clock, sink, new_data, predictions, actuals, metrics, env) ==
    LET c0 == {[decision |-> retraining_decision(clock),
                logs |-> sink.logs, model_metrics |-> sink.model_metrics,
                steps |-> <<>>, raised |-> FALSE, exc |-> ""]}
        c1 == {drift_step(self, new_data, env, c) : c \in c0}
        c2 == {IF c.raised THEN c
               ELSE performance_step(self, predictions, actuals, metrics, env, c) : c \in c1}
        c3 == {IF c.raised THEN c ELSE data_volume_step(self, new_data, c) : c \in c2}
        c4 == {IF c.raised THEN c ELSE staleness_step(self, file, clock, env, c) : c \in c3}
        c5 == {IF c.raised THEN c ELSE final_decision_step(self, c) : c \in c4}
        c6 == {IF c.raised THEN c ELSE log_decision_step(self, env, c) : c \in c5}
    IN The({IF c.raised THEN except_clause(env, c) ELSE c : c \in c6})

\* a file of the working directory: missing, unreadable as JSON, or its JSON value
Missing == [exists |-> FALSE, parsable |-> FALSE]
Unparsable == [exists |-> TRUE, parsable |-> FALSE]
JsonFile(json) == [exists |-> TRUE, parsable |-> TRUE, json |-> json]
\* a file whose JSON value is not an object (a list, a number)
NotAMapping == [exists |-> TRUE, parsable |-> TRUE]

\* the record trigger_retraining writes to the trigger file
trigger_data_running(clock) ==
    [timestamp |-> clock, triggered_by |-> "automated_monitoring", status |-> "running"]
trigger_data(clock) ==
    [timestamp |-> clock, triggered_by |-> "automated_monitoring", status |-> "pending"]

\* trigger_retraining: the result, the trigger file and the logs table after it;
\* fs says which file-system call raises, if any
trigger_retraining(file, clock, table, fs, sink_ok) ==
    LET started == emit(table, "INFO", "Triggering model retraining...", sink_ok)
        failed(e, f) == [ret |-> [status |-> "error", error |-> e, timestamp |-> clock],
                         file |-> f,
                         logs |-> emit(started, "ERROR", "Error triggering retraining",
                                       sink_ok)]
    IN IF fs = "makedirs_raises" THEN failed("OSError: makedirs", file)
       ELSE IF fs = "open_raises" THEN failed("OSError: open", file)
       ELSE IF fs = "dump_raises" THEN failed("OSError: write", Unparsable)
       ELSE IF ~sink_ok THEN failed("sqlite3.OperationalError", JsonFile(trigger_data(clock)))
       ELSE [ret |-> [status |-> "success", trigger_file |-> "triggers/retrain_model.trigger",
                      timestamp |-> clock, message |-> "Retraining process initiated"],
             file |-> JsonFile(trigger_data(clock)),
             logs |-> emit(log_message(started, "INFO", "retraining_trigger",
                                       "Model retraining triggered", trigger_data(clock)),
                           "INFO", "Retraining trigger created", sink_ok)]

-----------------------------------------------------------------------------
(* The public operations as actions.  A caller invokes one operation at a   *)
(* time and takes its result back before the next one starts.              *)

Self == [config |-> config, reference_data |-> reference_data,
         baseline_metrics |-> baseline_metrics,
         performance_threshold |-> performance_threshold]

Sink == [logs |-> logs, model_metrics |-> model_metrics]

Idle == call = None
Called(op) == call # None /\ call.op = op
SinkHasRoom == Len(logs) + Len(model_metrics) < MaxLogs
CanCall == Idle /\ SinkHasRoom

DetectDrift(new_data, threshold, sink_ok) ==
    /\ CanCall
    /\ \E out \in {detect_drift_logged(reference_data, new_data, threshold, sink_ok, logs)} :
          /\ result' = out.ret
          /\ logs' = out.logs
    /\ call' = [op |-> "detect_drift", new_data |-> new_data, threshold |-> threshold,
                sink_ok |-> sink_ok]
    /\ steps' = <<>>
    /\ UNCHANGED <<api_state, thread_state>>
    /\ UNCHANGED <<config, reference_data, baseline_metrics, performance_threshold,
                   metrics_file, trigger_file, now, model_metrics, decided>>

EvaluateCurrentPerformance(n_samples, metrics, env) ==
    /\ CanCall
    /\ \E out \in {evaluate_current_performance(baseline_metrics, performance_threshold,
                                                 n_samples, metrics, env, Sink)} :
          /\ result' = out.ret
          /\ logs' = out.logs
          /\ model_metrics' = out.model_metrics
    /\ call' = [op |-> "evaluate_current_performance", n_samples |-> n_samples,
                metrics |-> metrics, env |-> env]
    /\ steps' = <<>>
    /\ UNCHANGED <<api_state, thread_state>>
    /\ UNCHANGED <<config, reference_data, baseline_metrics, performance_threshold,
                   metrics_file, trigger_file, now, decided>>

\* the triggers directory after should_retrain: the method writes no file and
\* does not call trigger_retraining
triggers_after_decision_auto(file, clock, decision) ==
    IF Get(decision, "should_retrain", FALSE) THEN JsonFile(trigger_data(clock)) ELSE file
triggers_after_decision(file, clock, decision) == file

ShouldRetrain(new_data, predictions, actuals, metrics, env) ==
    /\ CanCall
    /\ \E out \in {should_retrain(Self, metrics_file, now, Sink, new_data, predictions,
                                   actuals, metrics, env)} :
          /\ result' = out.decision
          /\ logs' = out.logs
          /\ model_metrics' = out.model_metrics
          /\ steps' = out.steps
          /\ decided' = (decided \/ Get(out.decision, "should_retrain", FALSE))
          /\ trigger_file' = triggers_after_decision(trigger_file, now, out.decision)
    /\ call' = [op |-> "should_retrain", new_data |-> new_data,
                predictions |-> predictions, actuals |-> actuals, metrics |-> metrics,
                env |-> env]
    /\ UNCHANGED <<api_state, thread_state>>
    /\ UNCHANGED <<config, reference_data, baseline_metrics, performance_threshold,
                   metrics_file, now>>

TriggerRetraining(fs, sink_ok) ==
    /\ CanCall
    /\ \E out \in {trigger_retraining(trigger_file, now, logs, fs, sink_ok)} :
          /\ result' = out.ret
          /\ trigger_file' = out.file
          /\ logs' = out.logs
    /\ call' = [op |-> "trigger_retraining", fs |-> fs, sink_ok |-> sink_ok]
    /\ steps' = <<>>
    /\ UNCHANGED <<api_state, thread_state>>
    /\ UNCHANGED <<config, reference_data, baseline_metrics, performance_threshold,
                   metrics_file, now, model_metrics, decided>>

\* the caller has the result
Return ==
    /\ ~Idle
    /\ call' = None
    /\ result' = None
    /\ steps' = <<>>
    /\ UNCHANGED <<api_state, thread_state>>
    /\ UNCHANGED <<config, reference_data, baseline_metrics, performance_threshold,
                   metrics_file, trigger_file, now, logs, model_metrics, decided>>

\* InMemoryDatabaseLogger.clear_database
ClearDatabase ==
    /\ Idle
    /\ Len(logs) + Len(api_metrics) + Len(model_metrics) > 0
    /\ logs' = <<>>
    /\ api_metrics' = <<>>
    /\ model_metrics' = <<>>
    /\ UNCHANGED <<model, scaler, feature_names, prometheus, thread_state>>
    /\ UNCHANGED <<config, reference_data, baseline_metrics, performance_threshold,
                   metrics_file, trigger_file, now, call, result, steps, decided>>

-----------------------------------------------------------------------------
(* Inputs *)

SinkStates == BOOLEAN
FsOutcomes == {"ok", "makedirs_raises", "open_raises", "dump_raises"}

NoArg == [kind |-> "none"]
Scalar == [kind |-> "scalar"]
List(n) == [kind |-> "list", len |-> n]
PredictionArgs == {NoArg, Scalar} \cup {List(n) : n \in 0..MaxPairs}
ActualArgs == {NoArg} \cup {List(n) : n \in 0..MaxPairs}

\* whether should_retrain reaches the sklearn metrics with these arguments
Evaluates(predictions, actuals) ==
    /\ predictions.kind = "list" /\ actuals.kind = "list"
    /\ predictions.len > 0 /\ predictions.len = actuals.len

NoMetrics == [rmse |-> 0, r2 |-> 0]
Metrics(rmses, r2s) == [rmse : rmses, r2 : r2s] \cup {SklearnRaises}

Stamp(t) == [iso |-> TRUE, t |-> t]
BadStamp == [iso |-> FALSE]

\* models/best_model_metrics.json as the training pipeline can leave it
PolicyMetricsFiles ==
    {Missing, Unparsable,
     JsonFile([rmse |-> 50, r2 |-> 80]),
     JsonFile([rmse |-> 50, r2 |-> 80, training_timestamp |-> BadStamp])}
    \cup {JsonFile([rmse |-> 50, r2 |-> 80, training_timestamp |-> Stamp(MaxAge - a)]) :
            a \in 0..MaxAge}

\* monitoring/retraining_config.json
PolicyConfigFiles ==
    {JsonFile([min_samples_for_retraining |-> m, max_days_since_last_training |-> 1,
               enable_automatic_retraining |-> e]) :
        m \in {[number |-> 2], [string |-> "100"]}, e \in BOOLEAN}

\* the empty batch, and batches whose columns all give the same KS outcome
UniformBatches ==
    {[rows |-> 0, ks |-> <<>>]}
    \cup {[rows |-> r, ks |-> [c \in cols |-> o]] :
            r \in 1..MaxRows, o \in {4, 5, KsRaises}, cols \in {{}, Columns}}

-----------------------------------------------------------------------------
(* The retraining policy of a running service *)

\* the serving layer as the module leaves it on import: nothing loaded, nothing
\* counted, no request in progress, the logger's lock free
NotServing ==
    /\ api_metrics = <<>>
    /\ model = None
    /\ scaler = None
    /\ feature_names = None
    /\ prometheus = EmptyBag
    /\ threads = <<>>
    /\ lock = None

Init ==
    /\ \E file \in PolicyConfigFiles : config = load_config(file)
    /\ reference_data \in {None, [columns |-> Columns]}
    /\ metrics_file \in PolicyMetricsFiles
    /\ baseline_metrics = load_baseline_metrics(metrics_file)
    /\ performance_threshold = MonitorDefaultThreshold
    /\ trigger_file = Missing
    /\ now = MaxAge
    /\ logs = <<>>
    /\ model_metrics = <<>>
    /\ call = None
    /\ result = None
    /\ steps = <<>>
    /\ decided = FALSE
    /\ NotServing

ShouldRetrainCall ==
    /\ CanCall
    /\ \E new_data \in UniformBatches, predictions \in PredictionArgs, actuals \in ActualArgs,
          sink_ok \in SinkStates :
           \E metrics \in IF Evaluates(predictions, actuals)
                          THEN Metrics({55, 56}, {80}) ELSE {NoMetrics} :
               ShouldRetrain(new_data, predictions, actuals, metrics,
                             [sink_ok |-> sink_ok, zero_div_raises |-> FALSE])

TriggerRetrainingCall ==
    /\ CanCall
    /\ \E fs \in FsOutcomes, sink_ok \in SinkStates : TriggerRetraining(fs, sink_ok)

DetectDriftCall ==
    /\ CanCall
    /\ \E new_data \in UniformBatches, sink_ok \in SinkStates :
           DetectDrift(new_data, DetectDriftDefaultThreshold, sink_ok)

EvaluateCall ==
    /\ CanCall
    /\ \E n \in 1..MaxPairs, metrics \in Metrics({55, 56}, {80}), sink_ok \in SinkStates :
           EvaluateCurrentPerformance(n, metrics,
                                      [sink_ok |-> sink_ok, zero_div_raises |-> FALSE])

Next ==
    \/ ShouldRetrainCall
    \/ TriggerRetrainingCall
    \/ DetectDriftCall
    \/ EvaluateCall
    \/ Return
    \/ ClearDatabase

Spec == Init /\ [][Next]_vars

-----------------------------------------------------------------------------
(* The drift detector alone, on every batch over the columns *)

InitDrift ==
    /\ config = default_config
    /\ reference_data \in {None} \cup {[columns |-> 1..k] : k \in 0..NumCols}
    /\ metrics_file = Missing
    /\ baseline_metrics = load_baseline_metrics(metrics_file)
    /\ performance_threshold = MonitorDefaultThreshold
    /\ trigger_file = Missing
    /\ now = MaxAge
    /\ logs = <<>>
    /\ model_metrics = <<>>
    /\ call = None
    /\ result = None
    /\ steps = <<>>
    /\ decided = FALSE
    /\ NotServing

DriftCheck ==
    /\ CanCall
    /\ \E new_data \in DataFrames(SUBSET Columns, {1}), threshold \in {5, 10} :
           DetectDrift(new_data, threshold, TRUE)

NextDrift ==
    \/ DriftCheck
    \/ Return
    \/ ClearDatabase

SpecDrift == InitDrift /\ [][NextDrift]_vars

-----------------------------------------------------------------------------
(* The performance monitor alone *)

PerfBaselines ==
    {None, [best_model_name |-> "RandomForest"]}
    \cup [rmse : {0, 50}, r2 : {-80, 0, 80}]

InitPerf ==
    /\ config = default_config
    /\ reference_data = None
    /\ metrics_file = Missing
    /\ baseline_metrics \in PerfBaselines
    /\ performance_threshold \in {0, MonitorDefaultThreshold}
    /\ trigger_file = Missing
    /\ now = MaxAge
    /\ logs = <<>>
    /\ model_metrics = <<>>
    /\ call = None
    /\ result = None
    /\ steps = <<>>
    /\ decided = FALSE
    /\ NotServing

PerfCheck ==
    /\ CanCall
    /\ \E n \in 1..MaxPairs, metrics \in Metrics({0, 50, 55, 56}, {-100, 71, 72, 80, 100}),
          sink_ok \in SinkStates, zero_div_raises \in BOOLEAN :
           EvaluateCurrentPerformance(n, metrics,
                                      [sink_ok |-> sink_ok, zero_div_raises |-> zero_div_raises])

NextPerf ==
    \/ PerfCheck
    \/ Return
    \/ ClearDatabase

SpecPerf == InitPerf /\ [][NextPerf]_vars

-----------------------------------------------------------------------------
(* A policy instance over its life: construction from the files, the       *)
(* training pipeline replacing the metrics file, and the callers           *)

EmptyDict == [k \in {} |-> None]

\* RetrainingTrigger.__init__: the fields of the new instance and the logs
\* table after the loaders' logger calls; reference is what read_csv gives,
\* None when data/X_train.csv is missing
construct(config_path, reference, metrics_path, table, sink_ok) ==
    LET t0 == IF config_path.exists /\ config_path.parsable
              THEN emit(table, "INFO", "Retraining config loaded", sink_ok)
              ELSE table
        t1 == IF config_path.exists /\ "json" \notin DOMAIN config_path
              THEN emit(t0, "WARNING", "Could not load config", sink_ok)
              ELSE t0
        t2 == IF reference = None
              THEN emit(t1, "WARNING", "Reference data not found", sink_ok)
              ELSE emit(t1, "INFO", "Reference data loaded", sink_ok)
        t3 == IF metrics_path.exists /\ metrics_path.parsable
              THEN emit(t2, "INFO", "Baseline metrics loaded", sink_ok)
              ELSE IF metrics_path.exists
              THEN emit(t2, "ERROR", "Error loading baseline metrics", sink_ok)
              ELSE t2
    IN [config |-> load_config(config_path),
        reference_data |-> reference,
        baseline_metrics |-> load_baseline_metrics(metrics_path),
        performance_threshold |-> MonitorDefaultThreshold,
        logs |-> t3]

\* GET /monitoring/status
get_monitoring_status(self, file, clock) ==
    [monitoring_active |-> TRUE,
     drift_detection_enabled |->
         Get(Get(self.config, "monitoring_config", EmptyDict), "enable_drift_detection", TRUE),
     automatic_retraining_enabled |-> Get(self.config, "enable_automatic_retraining", TRUE),
     pending_retraining_triggers |-> IF file.exists THEN 1 ELSE 0,
     timestamp |-> clock]

\* the best_model_metrics.json that train_models writes
enhanced_best_metrics(rmse, r2, clock) ==
    [rmse |-> rmse, r2 |-> r2, best_model_name |-> "RandomForest",
     training_timestamp |-> Stamp(clock)]

\* a process starts and builds its RetrainingTrigger
Construct(config_path, reference, sink_ok) ==
    /\ CanCall
    /\ \E out \in {construct(config_path, reference, metrics_file, logs, sink_ok)} :
          /\ config' = out.config
          /\ reference_data' = out.reference_data
          /\ baseline_metrics' = out.baseline_metrics
          /\ performance_threshold' = out.performance_threshold
          /\ logs' = out.logs
    /\ call' = [op |-> "__init__", config_path |-> config_path]
    /\ result' = None
    /\ steps' = <<>>
    /\ UNCHANGED <<api_state, thread_state>>
    /\ UNCHANGED <<metrics_file, trigger_file, now, model_metrics, decided>>

\* the training pipeline saves the metrics of a newly trained model
ReplaceMetricsFile(rmse, r2) ==
    /\ Idle
    /\ metrics_file # JsonFile(enhanced_best_metrics(rmse, r2, now))
    /\ metrics_file' = JsonFile(enhanced_best_metrics(rmse, r2, now))
    /\ UNCHANGED <<api_state, thread_state>>
    /\ UNCHANGED <<config, reference_data, baseline_metrics, performance_threshold,
                   trigger_file, now, logs, model_metrics, call, result, steps, decided>>

\* main(): if decision["should_retrain"]: trigger.trigger_retraining()
MainTrigger(fs, sink_ok) ==
    /\ Called("should_retrain")
    /\ call.predictions = NoArg /\ call.actuals = NoArg
    /\ result.should_retrain
    /\ \E out \in {trigger_retraining(trigger_file, now, logs, fs, sink_ok)} :
          /\ result' = out.ret
          /\ trigger_file' = out.file
          /\ logs' = out.logs
    /\ call' = [op |-> "trigger_retraining", fs |-> fs, sink_ok |-> sink_ok]
    /\ steps' = <<>>
    /\ UNCHANGED <<api_state, thread_state>>
    /\ UNCHANGED <<config, reference_data, baseline_metrics, performance_threshold,
                   metrics_file, now, model_metrics, decided>>

MonitoringStatus ==
    /\ Idle
    /\ result' = get_monitoring_status(Self, trigger_file, now)
    /\ call' = [op |-> "get_monitoring_status"]
    /\ steps' = <<>>
    /\ UNCHANGED <<api_state, thread_state>>
    /\ UNCHANGED <<config, reference_data, baseline_metrics, performance_threshold,
                   metrics_file, trigger_file, now, logs, model_metrics, decided>>

\* monitoring/retraining_config.json as an operator can leave it
ServiceConfigFiles ==
    {Missing, Unparsable, NotAMapping,
     JsonFile([performance_threshold |-> 20]),
     JsonFile([monitoring_config |-> [enable_drift_detection |-> FALSE],
               min_samples_for_retraining |-> [number |-> 1],
               max_days_since_last_training |-> 1]),
     JsonFile([drift_threshold |-> 10, performance_threshold |-> 20,
               min_samples_for_retraining |-> [number |-> 2],
               max_days_since_last_training |-> 1,
               enable_automatic_retraining |-> FALSE])}

ServiceBatches ==
    {[rows |-> 0, ks |-> <<>>]} \cup {[rows |-> 1, ks |-> [c \in Columns |-> o]] : o \in {5, 10}}

InitService ==
    /\ config = default_config
    /\ reference_data = [columns |-> Columns]
    /\ metrics_file \in {Missing, JsonFile(enhanced_best_metrics(50, 80, 0))}
    /\ baseline_metrics = load_baseline_metrics(metrics_file)
    /\ performance_threshold = MonitorDefaultThreshold
    /\ trigger_file = Missing
    /\ now = MaxAge
    /\ logs = <<>>
    /\ model_metrics = <<>>
    /\ call = None
    /\ result = None
    /\ steps = <<>>
    /\ decided = FALSE
    /\ NotServing

Restart ==
    /\ CanCall
    /\ \E config_path \in ServiceConfigFiles, reference \in {None, [columns |-> Columns]} :
           Construct(config_path, reference, TRUE)

TrainingRun ==
    /\ Idle
    /\ \E rmse \in {40, 50} : ReplaceMetricsFile(rmse, 80)

RetrainingCheck ==
    /\ CanCall
    /\ \E new_data \in ServiceBatches, paired \in BOOLEAN, sink_ok \in SinkStates :
           \E metrics \in IF paired THEN [rmse : {55, 56}, r2 : {80}] ELSE {NoMetrics} :
               ShouldRetrain(new_data,
                             IF paired THEN List(1) ELSE NoArg,
                             IF paired THEN List(1) ELSE NoArg,
                             metrics, [sink_ok |-> sink_ok, zero_div_raises |-> FALSE])

\* the trigger calls of this specification run with a working sink, so that
\* a completely written trigger file comes from a successful call
ManualTrigger ==
    /\ CanCall
    /\ \E fs \in FsOutcomes : TriggerRetraining(fs, TRUE)

MainRoutineTrigger ==
    /\ Called("should_retrain")
    /\ \E fs \in FsOutcomes : MainTrigger(fs, TRUE)

\* POST /monitoring/drift: detect_drift(new_data), the threshold left to its default
DriftEndpoint ==
    /\ CanCall
    /\ \E new_data \in ServiceBatches, sink_ok \in SinkStates :
           DetectDrift(new_data, DetectDriftDefaultThreshold, sink_ok)

NextService ==
    \/ Restart
    \/ TrainingRun
    \/ RetrainingCheck
    \/ DriftEndpoint
    \/ ManualTrigger
    \/ MainRoutineTrigger
    \/ MonitoringStatus
    \/ Return
    \/ ClearDatabase

SpecService == InitService /\ [][NextService]_vars

-----------------------------------------------------------------------------
(* Properties *)

Disabled == Reason("Automatic retraining is disabled")
Insufficient == Reason("Insufficient new data for retraining")
StalenessReasons(reasons) == {r \in Range(reasons) : "N" \in DOMAIN r}

\* the signals of a decision, read from the reports attached to it and from
\* the baseline metrics file
DriftFired == Get(result.drift_analysis, "overall_drift", FALSE)
PerformanceFired == Get(result.performance_analysis, "performance_degraded", FALSE)
HasTrainingTimestamp ==
    /\ metrics_file.exists /\ metrics_file.parsable
    /\ "training_timestamp" \in DOMAIN metrics_file.json
    /\ metrics_file.json.training_timestamp.iso
WholeDaysOld == (now - metrics_file.json.training_timestamp.t) \div UnitsPerDay
StalenessFired ==
    HasTrainingTimestamp /\ WholeDaysOld > config.max_days_since_last_training
SignalFired == DriftFired \/ PerformanceFired \/ StalenessFired

\* C1: a should_retrain evaluation that ends without an exception returns
\* should_retrain = TRUE exactly when automatic retraining is enabled and the
\* drift report's overall_drift, the performance report's performance_degraded
\* or the baseline's age in whole days above the maximum fired; every
\* applicable check ran and its report is attached, whatever fired before it.
C1_DecisionIsFusion ==
    (Called("should_retrain") /\ "error" \notin DOMAIN result) =>
        /\ result.should_retrain = (config.enable_automatic_retraining /\ SignalFired)
        /\ call.new_data.rows > 0 => result.drift_analysis # None
        /\ Evaluates(call.predictions, call.actuals) => result.performance_analysis # None
        /\ result.data_volume_check # None

\* C1 witness: drift had fired, and the performance check still ran and
\* attached a report that is not degraded; the decision is to retrain.
C1_Witness ==
    /\ Called("should_retrain") /\ "error" \notin DOMAIN result
    /\ result.should_retrain
    /\ DriftFired
    /\ result.performance_analysis # None /\ ~PerformanceFired
    /\ ~StalenessFired

\* C2 (as claimed): with automatic retraining disabled, every decision
\* should_retrain returns has should_retrain = FALSE, on every return path.
C2_DisabledNeverRetrains ==
    (Called("should_retrain") /\ ~config.enable_automatic_retraining) =>
        ~result.should_retrain

\* C3 (as claimed): with automatic retraining disabled, every decision
\* carries the reason "Automatic retraining is disabled".
C3_DisabledAlwaysGivesReason ==
    (Called("should_retrain") /\ ~config.enable_automatic_retraining) =>
        Disabled \in Range(result.reasons)

\* C3 (amended): with automatic retraining disabled, a decision carries the
\* reason "Automatic retraining is disabled" exactly when a drift, performance
\* or staleness signal fired and the evaluation reached the final override
\* (the data-volume check is attached); the reason appears at most once.
C3_DisabledReasonIffSignal ==
    (Called("should_retrain") /\ ~config.enable_automatic_retraining) =>
        /\ Disabled \in Range(result.reasons)
              <=> (result.data_volume_check # None /\ SignalFired)
        /\ Cardinality({i \in DOMAIN result.reasons : result.reasons[i] = Disabled}) <= 1

\* C3 witnesses: disabled and a signal fired, so the reason is there and the
\* decision is FALSE.
C3_Witness ==
    /\ Called("should_retrain") /\ ~config.enable_automatic_retraining
    /\ SignalFired
    /\ Disabled \in Range(result.reasons)
    /\ ~result.should_retrain

\* the inputs with which an exception reaches the top level of an operation
Compared == DOMAIN call.new_data.ks \cap reference_data.columns
DriftCheckFails ==
    reference_data = None \/ \E c \in Compared : call.new_data.ks[c] = KsRaises
EvaluationFails ==
    \/ call.metrics = SklearnRaises
    \/ ~call.env.sink_ok
    \/ baseline_metrics # None /\ {"rmse", "r2"} \ DOMAIN baseline_metrics # {}
TriggerFails == call.fs # "ok" \/ ~call.sink_ok
DecisionFails ==
    \/ ~call.env.sink_ok
    \/ "number" \notin DOMAIN config.min_samples_for_retraining
    \/ /\ Truthy(call.predictions) /\ Truthy(call.actuals)
       /\ ~HasLen(call.predictions) \/ ~HasLen(call.actuals)
DecisionFields == {"timestamp", "should_retrain", "reasons", "drift_analysis",
                   "performance_analysis", "data_volume_check"}

\* C4: no public operation raises to its caller: each gives back a result
\* object, a failure inside it shows as the result's error field, and
\* should_retrain still gives back its decision, with the exception text in
\* the decision's error field.
C4_NothingRaises ==
    call # None =>
        /\ "raised" \notin DOMAIN result
        /\ Called("detect_drift") =>
              (DriftCheckFails => "error" \in DOMAIN result)
        /\ Called("evaluate_current_performance") =>
              (EvaluationFails => "error" \in DOMAIN result)
        /\ Called("trigger_retraining") =>
              /\ result.status \in {"success", "error"}
              /\ TriggerFails => (result.status = "error" /\ "error" \in DOMAIN result)
        /\ Called("should_retrain") =>
              /\ DecisionFields \subseteq DOMAIN result
              /\ DecisionFails => ("error" \in DOMAIN result /\ result.error # "")

\* C4 witness: an exception inside should_retrain after the drift check; the
\* decision comes back with the drift report and the error.
C4_Witness ==
    /\ Called("should_retrain")
    /\ "error" \in DOMAIN result
    /\ result.drift_analysis # None
    /\ result.data_volume_check = None

\* C5 (as claimed): every should_retrain call, normal or failed, has written a
\* row with module "retraining_trigger" that carries the decision's reasons
\* and the config to the sink by the time it returns (stated for a sink that
\* accepts writes).
C5_EveryDecisionLogged ==
    (Called("should_retrain") /\ call.env.sink_ok) =>
        \E i \in DOMAIN logs :
            /\ logs[i].module = "retraining_trigger"
            /\ logs[i].extra_data = [reasons |-> result.reasons, config |-> config]

\* C6: the data-volume step attaches sufficient_data = (len(newData) >=
\* min_samples_for_retraining), adds the reason "Insufficient new data for
\* retraining" exactly when the data is insufficient, and leaves
\* should_retrain as the steps before it set it.
C6_VolumeIsInformational ==
    Called("should_retrain") =>
        /\ (Len(steps) >= 2 /\ "number" \in DOMAIN config.min_samples_for_retraining) =>
              /\ Len(steps) >= 3
              /\ result.data_volume_check # None
        /\ Len(steps) >= 3 =>
              /\ result.data_volume_check.sufficient_data =
                    (call.new_data.rows >= config.min_samples_for_retraining.number)
              /\ Insufficient \in Range(result.reasons)
                    <=> ~result.data_volume_check.sufficient_data
              /\ steps[3] = steps[2]

\* C6 witness: a returned decision to retrain whose data is insufficient.
C6_Witness ==
    /\ Called("should_retrain")
    /\ result.should_retrain
    /\ result.data_volume_check # None
    /\ ~result.data_volume_check.sufficient_data
    /\ Insufficient \in Range(result.reasons)

\* C7: staleness step.  With a training timestamp in the baseline metrics
\* file, the reason "Model is N days old" is added and should_retrain set
\* exactly when the whole days N since the timestamp are more than
\* max_days_since_last_training; with the file missing or unparsable there is
\* no staleness reason, no error from it, and the final override still runs.
C7_StalenessIsStrict ==
    (Called("should_retrain") /\ Len(steps) >= 3) =>
        /\ Len(steps) >= 5
        /\ HasTrainingTimestamp =>
              /\ StalenessReasons(result.reasons) =
                    IF WholeDaysOld > config.max_days_since_last_training
                    THEN {ModelIsOld(WholeDaysOld)} ELSE {}
              /\ steps[4] = (steps[3] \/ WholeDaysOld > config.max_days_since_last_training)
        /\ (~metrics_file.exists \/ ~metrics_file.parsable
                \/ (HasTrainingTimestamp = FALSE
                      /\ "training_timestamp" \in DOMAIN metrics_file.json)) =>
              /\ StalenessReasons(result.reasons) = {}
              /\ steps[4] = steps[3]
              /\ call.env.sink_ok => "error" \notin DOMAIN result
              /\ steps[5] = (steps[4] /\ config.enable_automatic_retraining)

\* C7 witnesses: the model is exactly max_days old and nothing fires.
C7_Witness ==
    /\ Called("should_retrain") /\ Len(steps) >= 5
    /\ HasTrainingTimestamp
    /\ WholeDaysOld = config.max_days_since_last_training
    /\ (now - metrics_file.json.training_timestamp.t) % UnitsPerDay # 0
    /\ ~steps[4]
    /\ StalenessReasons(result.reasons) = {}

\* the columns whose test ran: the compared columns up to the first that raises
Tested ==
    {c \in Compared : \A b \in Compared : b < c => call.new_data.ks[b] # KsRaises}
DriftReport == Called("detect_drift") /\ reference_data # None

\* C8 (as claimed): overall_drift is true exactly when the drifted features
\* are more than 20% of the compared features, the columns present in both the
\* reference dataset and the batch.
C8_OverallDriftOverCompared ==
    (DriftReport /\ "error" \notin DOMAIN result) =>
        result.overall_drift =
            (100 * Len(result.drifted_features) > OverallDriftPercent * Cardinality(Compared))

\* C9: in every drift report a column is in drifted_features exactly when it
\* was compared and its p-value is strictly below the threshold passed to
\* detect_drift, and drifted_features is the set of the columns whose
\* drift_scores entry has drifted = true.
C9_DriftedIffBelowThreshold ==
    DriftReport =>
        /\ Range(result.drifted_features) =
              {c \in DOMAIN result.drift_scores : result.drift_scores[c].drifted}
        /\ Cardinality(Range(result.drifted_features)) = Len(result.drifted_features)
        /\ \A c \in Columns :
              c \in Range(result.drifted_features) <=>
                  /\ c \in Tested
                  /\ call.new_data.ks[c] \in PValues
                  /\ call.new_data.ks[c] < call.threshold
        /\ \A c \in DOMAIN result.drift_scores :
              result.drift_scores[c].p_value = call.new_data.ks[c]
        /\ "error" \notin DOMAIN result => DOMAIN result.drift_scores = Compared

\* C9 witness: one compared column with its p-value at the threshold, not
\* drifted, next to one below the threshold, drifted.
C9_Witness ==
    /\ DriftReport
    /\ "error" \notin DOMAIN result
    /\ \E c, d \in Compared :
          /\ call.new_data.ks[c] = call.threshold
          /\ c \notin Range(result.drifted_features)
          /\ call.new_data.ks[d] < call.threshold
          /\ d \in Range(result.drifted_features)

\* ratio > threshold for ratio = num / den, the division as the floats do it
RatioAbove(num, den, threshold) ==
    IF den > 0 THEN 100 * num > threshold * den
    ELSE IF den < 0 THEN 100 * num < threshold * den
    ELSE num > 0
BaselinePresent ==
    baseline_metrics # None /\ {"rmse", "r2"} \subseteq DOMAIN baseline_metrics

\* C10: with a baseline metrics record, performance_degraded is true exactly
\* when (rmse - baseline.rmse) / baseline.rmse > threshold or
\* (baseline.r2 - r2) / baseline.r2 > threshold; a ratio equal to the threshold
\* is not degradation.
C10_DegradedIsStrict ==
    (Called("evaluate_current_performance") /\ BaselinePresent
        /\ "error" \notin DOMAIN result) =>
        /\ "performance_degraded" \in DOMAIN result
        /\ result.performance_degraded =
              (\/ RatioAbove(call.metrics.rmse - baseline_metrics.rmse,
                             baseline_metrics.rmse, performance_threshold)
               \/ RatioAbove(baseline_metrics.r2 - call.metrics.r2,
                             baseline_metrics.r2, performance_threshold))

\* C10 witness: both ratios equal the threshold and the result is not degraded.
C10_Witness ==
    /\ Called("evaluate_current_performance") /\ BaselinePresent
    /\ "error" \notin DOMAIN result
    /\ baseline_metrics.rmse > 0 /\ baseline_metrics.r2 > 0
    /\ performance_threshold > 0
    /\ 100 * (call.metrics.rmse - baseline_metrics.rmse)
          = performance_threshold * baseline_metrics.rmse
    /\ 100 * (baseline_metrics.r2 - call.metrics.r2)
          = performance_threshold * baseline_metrics.r2
    /\ ~result.performance_degraded

\* C11 (as claimed): the performance step compares the degradation ratios
\* with the performance_threshold of the loaded config.
C11_PerformanceStepUsesConfigThreshold ==
    (/\ Called("should_retrain")
     /\ result.performance_analysis # None
     /\ "performance_degraded" \in DOMAIN result.performance_analysis) =>
        result.performance_analysis.performance_degraded =
            (\/ RatioAbove(call.metrics.rmse - baseline_metrics.rmse,
                           baseline_metrics.rmse, config.performance_threshold)
             \/ RatioAbove(baseline_metrics.r2 - call.metrics.r2,
                           baseline_metrics.r2, config.performance_threshold))

PerformanceReason == Reason("Performance degradation detected")

\* C12: for predictions and actuals that are lists or absent, should_retrain
\* runs the performance evaluation exactly when both are supplied, non-empty
\* and of equal length; otherwise performance_analysis stays null, no
\* performance reason is added, the skip records no error, and the
\* data-volume, staleness and override steps still run.
C12_PairedDataOrSkip ==
    (Called("should_retrain") /\ call.predictions # Scalar) =>
        /\ Len(steps) >= 2
        /\ result.performance_analysis # None <=> Evaluates(call.predictions, call.actuals)
        /\ ~Evaluates(call.predictions, call.actuals) =>
              /\ PerformanceReason \notin Range(result.reasons)
              /\ steps[2] = steps[1]
              /\ "number" \in DOMAIN config.min_samples_for_retraining =>
                    /\ Len(steps) = 5
                    /\ result.data_volume_check # None
                    /\ call.env.sink_ok => "error" \notin DOMAIN result

\* C12 witness: lists of different lengths; the evaluation is skipped and
\* the decision is complete and without error.
C12_Witness ==
    /\ Called("should_retrain")
    /\ call.predictions.kind = "list" /\ call.actuals.kind = "list"
    /\ call.predictions.len > 0 /\ call.actuals.len > 0
    /\ call.predictions.len # call.actuals.len
    /\ result.performance_analysis = None
    /\ "error" \notin DOMAIN result
    /\ Len(steps) = 5

ReferenceUnavailable == [error |-> "Reference data not available"]
DriftReason == Reason("Data drift detected")

\* C13: without a reference dataset detect_drift returns the error marker
\* instead of raising, and should_retrain on a non-empty batch returns a
\* decision with that marker as drift_analysis, without the reason "Data drift
\* detected" and without a top-level error, after running the performance,
\* data-volume, staleness and override steps.
C13_NoReferenceStillDecides ==
    /\ (Called("detect_drift") /\ reference_data = None) => result = ReferenceUnavailable
    /\ (Called("should_retrain") /\ reference_data = None /\ call.new_data.rows > 0) =>
          /\ result.drift_analysis = ReferenceUnavailable
          /\ DriftReason \notin Range(result.reasons)
          /\ Len(steps) >= 1 /\ ~steps[1]
          /\ ~DecisionFails =>
                /\ "error" \notin DOMAIN result
                /\ Len(steps) = 5
                /\ result.data_volume_check # None
                /\ Evaluates(call.predictions, call.actuals) =>
                      result.performance_analysis # None

\* C13 witness: no reference data, a non-empty batch, and a complete decision
\* to retrain that the performance step produced.
C13_Witness ==
    /\ Called("should_retrain") /\ reference_data = None /\ call.new_data.rows > 0
    /\ result.drift_analysis = ReferenceUnavailable
    /\ "error" \notin DOMAIN result
    /\ result.performance_analysis # None
    /\ result.should_retrain

\* C14 (as claimed): a detect_drift call leaves the reference dataset and the
\* contents of the log/metric sink unchanged; it writes no record to the sink.
C14_DetectDriftLeavesSink ==
    [][(Idle /\ Called("detect_drift")') =>
          /\ reference_data' = reference_data
          /\ logs' = logs
          /\ model_metrics' = model_metrics]_vars

\* C15 (as claimed): whenever a trigger file has been written, a should_retrain
\* evaluation that returned should_retrain = true came before the write.
C15_TriggerOnlyAfterTrueDecision ==
    (trigger_file.exists /\ trigger_file.parsable) => decided

\* the status endpoint's count of pending trigger files
PendingTriggers == get_monitoring_status(Self, trigger_file, now).pending_retraining_triggers

\* C16 (as claimed): each successful trigger_retraining call adds one trigger
\* file to those already in the triggers directory, so that n successful calls
\* leave n files and a pending count of n (stated for a directory holding only
\* the files that successful calls wrote).
C16_OneFilePerTrigger ==
    [][(/\ call' # call
        /\ Called("trigger_retraining")'
        /\ result'.status = "success"
        /\ trigger_file.exists => trigger_file.parsable) =>
            PendingTriggers' = PendingTriggers + 1]_vars

\* C17: a should_retrain call leaves the triggers directory as it was,
\* whatever it decides, and the trigger file changes only in a step that is a
\* trigger_retraining call.
C17_DecisionNeverTriggers ==
    [][/\ (call' # call /\ Called("should_retrain")') => trigger_file' = trigger_file
       /\ trigger_file' # trigger_file => (call' # call /\ Called("trigger_retraining")')]_vars

\* C17 witness: a decision to retrain has been returned and there is no
\* trigger file.
C17_Witness ==
    /\ Called("should_retrain")
    /\ "error" \notin DOMAIN result
    /\ result.should_retrain
    /\ ~trigger_file.exists

\* C18: whenever trigger_retraining returns status "success", the file at the
\* returned trigger_file path exists and holds a record with status "pending"
\* and triggered_by "automated_monitoring".
C18_SuccessMeansFileWritten ==
    (Called("trigger_retraining") /\ result.status = "success") =>
        /\ result.trigger_file = "triggers/retrain_model.trigger"
        /\ trigger_file.exists /\ trigger_file.parsable
        /\ trigger_file.json.status = "pending"
        /\ trigger_file.json.triggered_by = "automated_monitoring"

\* C18 witness: a successful trigger_retraining call.
C18_Witness ==
    /\ Called("trigger_retraining")
    /\ call.fs = "ok" /\ call.sink_ok
    /\ result.status = "success"
    /\ trigger_file.exists

ConfigKeys == {"drift_threshold", "performance_threshold", "min_samples_for_retraining",
               "max_days_since_last_training", "enable_automatic_retraining"}
\* the config file holds a JSON object
ConfigLoaded(file) == file.exists /\ file.parsable /\ "json" \in DOMAIN file
\* the decision should_retrain gives for the call at hand under another config
DecisionUnder(cfg) ==
    should_retrain([Self EXCEPT !.config = cfg], metrics_file, now,
                   [logs |-> <<>>, model_metrics |-> <<>>], call.new_data,
                   call.predictions, call.actuals, call.metrics, call.env).decision

\* C19: the effective config always has the five recognized keys; a key of the
\* config file takes the file's value and a missing key its default; keys
\* outside the five do not change should_retrain's decision; with the file
\* absent, unreadable or malformed the config is the defaults exactly.
C19_ConfigMergedOverDefaults ==
    /\ ConfigKeys \subseteq DOMAIN config
    /\ Called("__init__") =>
          /\ \A k \in ConfigKeys :
                config[k] = IF ConfigLoaded(call.config_path) /\ k \in DOMAIN call.config_path.json
                            THEN call.config_path.json[k]
                            ELSE default_config[k]
          /\ ~ConfigLoaded(call.config_path) =>
                config = [drift_threshold |-> 5, performance_threshold |-> 10,
                          min_samples_for_retraining |-> [number |-> 100],
                          max_days_since_last_training |-> 30,
                          enable_automatic_retraining |-> TRUE]
    /\ Called("should_retrain") =>
          result = DecisionUnder([k \in ConfigKeys |-> config[k]])

\* C19 witness: a decision made under a config that has a key from the file,
\* keys from the defaults and an unknown key.
C19_Witness ==
    /\ Called("should_retrain")
    /\ "monitoring_config" \in DOMAIN config
    /\ config.max_days_since_last_training = 1
    /\ config.drift_threshold = DefaultDriftThreshold
    /\ result.should_retrain

\* the baseline metrics file as the instance read it at construction
FileAtConstruction ==
    IF baseline_metrics = None THEN Missing ELSE JsonFile(baseline_metrics)
\* the decision should_retrain gives for the call at hand when it sees this
\* metrics file
DecisionWithFile(file) ==
    should_retrain(Self, file, now, [logs |-> <<>>, model_metrics |-> <<>>],
                   call.new_data, call.predictions, call.actuals, call.metrics,
                   call.env).decision

\* C20 (as claimed): should_retrain reads no file, so a decision is the one the
\* instance gives with the baseline metrics file as it was at construction,
\* whatever the file holds now.
C20_DecisionsIgnoreLaterFileChanges ==
    (Called("should_retrain") /\ call.env.sink_ok) =>
        result = DecisionWithFile(FileAtConstruction)

-----------------------------------------------------------------------------
(* Calls of should_retrain in progress at once on the one policy instance   *)
(* of the server (api.py: retraining_trigger), one per worker thread.  A    *)
(* thread runs the statements of should_retrain one step at a time; the     *)
(* steps of different threads interleave in every order.  The sink is the   *)
(* only thing the calls share and write.                                    *)

NumThreads == 2
Threads == 1..NumThreads

\* the call whose frame holds the decision record that thread t works on:
\* retraining_decision is a local variable, so each call has its own
decision_owner_instance(t) == 1
decision_owner(t) == t

\* the frame of a thread that has no call in progress
NotCalled == [pc |-> "idle", args |-> None, clock |-> 0, c |-> None, ret |-> None]

\* what a call keeps between its statements, as it is after lines 232-239
new_context(clock) ==
    [decision |-> retraining_decision(clock), logs |-> <<>>, model_metrics |-> <<>>,
     steps |-> <<>>, raised |-> FALSE, exc |-> ""]

\* the statement of should_retrain at pc, applied to the context c
policy_step(pc, self, file, clock, a, c) ==
    CASE pc = "drift" -> drift_step(self, a.new_data, a.env, c)
      [] pc = "performance" ->
             performance_step(self, a.predictions, a.actuals, a.metrics, a.env, c)
      [] pc = "data_volume" -> data_volume_step(self, a.new_data, c)
      [] pc = "staleness" -> staleness_step(self, file, clock, a.env, c)
      [] pc = "final" -> final_decision_step(self, c)
      [] pc = "log" -> log_decision_step(self, a.env, c)
      [] pc = "except" -> except_clause(a.env, c)

\* where control goes after the statement at pc
next_pc(pc, c) ==
    IF pc = "except" THEN "return"
    ELSE IF c.raised THEN "except"
    ELSE CASE pc = "drift" -> "performance"
           [] pc = "performance" -> "data_volume"
           [] pc = "data_volume" -> "staleness"
           [] pc = "staleness" -> "final"
           [] pc = "final" -> "log"
           [] pc = "log" -> "return"

Running(t) == threads[t].pc \notin {"idle", "return", "returned"}

\* a request arrives on thread t: lines 232-239
BeginShouldRetrain(t, args) ==
    /\ threads[t].pc = "idle"
    /\ threads' = [[threads EXCEPT ![t] = [@ EXCEPT !.pc = "drift", !.args = args,
                                                     !.clock = now]]
                       EXCEPT ![decision_owner(t)].c = new_context(now)]
    /\ UNCHANGED <<config, reference_data, baseline_metrics, performance_threshold,
                   metrics_file, trigger_file, now, logs, model_metrics, call, result,
                   steps, decided, api_state, lock>>

\* thread t runs its next statement
StepShouldRetrain(t) ==
    /\ Running(t)
    /\ \E out \in {policy_step(threads[t].pc, Self, metrics_file, threads[t].clock,
                               threads[t].args,
                               [threads[decision_owner(t)].c EXCEPT
                                    !.logs = logs, !.model_metrics = model_metrics])} :
          /\ logs' = out.logs
          /\ model_metrics' = out.model_metrics
          /\ threads' = [[threads EXCEPT ![decision_owner(t)].c =
                              [out EXCEPT !.logs = <<>>, !.model_metrics = <<>>]]
                             EXCEPT ![t].pc = next_pc(threads[t].pc, out)]
    /\ UNCHANGED <<config, reference_data, baseline_metrics, performance_threshold,
                   metrics_file, trigger_file, now, call, result, steps, decided,
                   api_state, lock>>

\* line 334: the decision goes back to the caller of thread t
ReturnShouldRetrain(t) ==
    /\ threads[t].pc = "return"
    /\ threads' = [threads EXCEPT ![t].pc = "returned",
                                  ![t].ret = threads[decision_owner(t)].c.decision]
    /\ UNCHANGED <<config, reference_data, baseline_metrics, performance_threshold,
                   metrics_file, trigger_file, now, logs, model_metrics, call, result,
                   steps, decided, api_state, lock>>

\* the requests that arrive: a batch, with or without paired predictions
ConcurrentBatches ==
    {[rows |-> 0, ks |-> <<>>]} \cup {[rows |-> 1, ks |-> [c \in Columns |-> o]] : o \in {4, 5}}

ConcurrentArgs ==
    {[new_data |-> d, predictions |-> NoArg, actuals |-> NoArg, metrics |-> NoMetrics,
      env |-> [sink_ok |-> TRUE, zero_div_raises |-> FALSE]] : d \in ConcurrentBatches}
    \cup {[new_data |-> [rows |-> 0, ks |-> <<>>], predictions |-> List(1),
           actuals |-> List(1), metrics |-> [rmse |-> 56, r2 |-> 80],
           env |-> [sink_ok |-> TRUE, zero_div_raises |-> FALSE]]}

InitConcurrent ==
    /\ config = load_config(JsonFile([min_samples_for_retraining |-> [number |-> 2],
                                      max_days_since_last_training |-> 1]))
    /\ reference_data = [columns |-> Columns]
    /\ metrics_file \in {JsonFile([rmse |-> 50, r2 |-> 80]),
                         JsonFile([rmse |-> 50, r2 |-> 80,
                                   training_timestamp |-> Stamp(0)])}
    /\ baseline_metrics = load_baseline_metrics(metrics_file)
    /\ performance_threshold = MonitorDefaultThreshold
    /\ trigger_file = Missing
    /\ now = MaxAge
    /\ logs = <<>>
    /\ model_metrics = <<>>
    /\ call = None
    /\ result = None
    /\ steps = <<>>
    /\ decided = FALSE
    /\ api_metrics = <<>>
    /\ model = None
    /\ scaler = None
    /\ feature_names = None
    /\ prometheus = EmptyBag
    /\ threads = [t \in Threads |-> NotCalled]
    /\ lock = None

RequestArrives == \E t \in Threads, args \in ConcurrentArgs : BeginShouldRetrain(t, args)
ThreadRuns == \E t \in Threads : StepShouldRetrain(t)
ThreadReturns == \E t \in Threads : ReturnShouldRetrain(t)

NextConcurrent ==
    \/ RequestArrives
    \/ ThreadRuns
    \/ ThreadReturns

SpecConcurrent == InitConcurrent /\ [][NextConcurrent]_vars

\* the decision the call of frame f returns when no other call is in progress
DecisionAlone(f) ==
    should_retrain(Self, metrics_file, f.clock, [logs |-> <<>>, model_metrics |-> <<>>],
                   f.args.new_data, f.args.predictions, f.args.actuals, f.args.metrics,
                   f.args.env).decision

\* C21: calls of should_retrain in progress at once on one policy instance do
\* not interfere: no step of a call changes the loaded config, the reference
\* dataset or the baseline metrics, and under every interleaving of the calls'
\* statements each call returns the decision it returns running alone on the
\* same inputs.
C21_ConcurrentCallsDoNotInterfere ==
    [][/\ UNCHANGED <<config, reference_data, baseline_metrics, performance_threshold>>
       /\ \A t \in DOMAIN threads' :
              threads'[t].pc = "returned" => threads'[t].ret = DecisionAlone(threads'[t])]_vars

\* a call has returned a decision to retrain while another call, on other
\* inputs, is between its statements and has collected a reason of its own
C21_Witness ==
    /\ DOMAIN threads = Threads
    /\ \E t, u \in Threads :
          /\ threads[t].pc = "returned"
          /\ threads[t].ret.should_retrain
          /\ threads[u].pc = "final"
          /\ threads[u].args # threads[t].args
          /\ threads[u].c.decision.reasons # <<>>
          /\ threads[u].c.decision.reasons # threads[t].ret.reasons

-----------------------------------------------------------------------------
(* The metric record of an evaluation *)

\* the step is a call of evaluate_current_performance by a caller
Evaluated == Idle /\ call' # None /\ call'.op = "evaluate_current_performance"

\* the table after the step is the table before it with one row more, a
\* performance_monitoring row
OneMetricEmitted ==
    /\ Len(model_metrics') = Len(model_metrics) + 1
    /\ SubSeq(model_metrics', 1, Len(model_metrics)) = model_metrics
    /\ model_metrics'[Len(model_metrics')].model_type = "performance_monitoring"

\* the errors of the metric computation and of the degradation comparison
ComputationErrors ==
    {"sklearn metric raised", "KeyError rmse", "KeyError r2", "ZeroDivisionError"}

\* C22: an evaluate_current_performance call that returns a performance
\* report has emitted exactly one metric record, of model_type
\* "performance_monitoring", to the sink; a call that returns an error record
\* because the metric computation or the degradation comparison failed has
\* emitted none.
C22_OneMetricPerReport ==
    [][Evaluated =>
          /\ "error" \notin DOMAIN result' => OneMetricEmitted
          /\ ("error" \in DOMAIN result' /\ result'.error \in ComputationErrors) =>
                 model_metrics' = model_metrics]_vars

\* an evaluation against a baseline has returned its report, and the one row
\* of the metrics table is its record
C22_Witness ==
    /\ Called("evaluate_current_performance")
    /\ "performance_degraded" \in DOMAIN result
    /\ Len(model_metrics) = 1
    /\ model_metrics[1].model_type = "performance_monitoring"
    /\ model_metrics[1].rmse = result.rmse

-----------------------------------------------------------------------------
(* The serving layer (src/src/api.py): the /predict endpoint and the query  *)
(* endpoints over the sink's tables.  Feature values are in tenths.         *)

MaxLimit == 1000        \* "Cap at 1000"
DefaultLimit == 100     \* request.args.get("limit", 100)
NumFeatures == 2        \* fields of HousingFeatures a request body is built over
MaxStored == 1001       \* rows a table of the sink holds when the requests start
MaxRequests == 2        \* /predict requests the Prometheus counters have counted

Min(a, b) == IF a < b THEN a ELSE b

\* the fields of HousingFeatures in the order of the class, with ge and le
HousingFeatures ==
    <<[name |-> "MedInc", ge |-> 0, le |-> 200],
      [name |-> "HouseAge", ge |-> 0, le |-> 1000],
      [name |-> "AveRooms", ge |-> 10, le |-> 500],
      [name |-> "AveBedrms", ge |-> 0, le |-> 100],
      [name |-> "Population", ge |-> 10, le |-> 500000],
      [name |-> "AveOccup", ge |-> 5, le |-> 200],
      [name |-> "Latitude", ge |-> 320, le |-> 420],
      [name |-> "Longitude", ge |-> -1250, le |-> -1140]>>

Fields == {HousingFeatures[i] : i \in 1..NumFeatures}

\* a value of a JSON object: a number, or a string that is not a number
Number(n) == [number |-> n]
NotANumber == [string |-> "not_a_number"]

\* the fields of a JSON object that pydantic reports: missing, not a float,
\* below ge or above le
field_errors(data) ==
    {f.name : f \in {g \in Fields :
        \/ g.name \notin DOMAIN data
        \/ "number" \notin DOMAIN data[g.name]
        \/ data[g.name].number < g.ge
        \/ data[g.name].number > g.le}}

\* request bodies: text that is not JSON, the JSON null, a JSON value that is
\* not an object (a list, a number, a string), or an object
InvalidJson == [kind |-> "invalid_json"]
JsonNull == [kind |-> "null"]
JsonList == [kind |-> "list"]
JsonObject(data) == [kind |-> "object", data |-> data]

\* a Counter's .labels(...).inc()
inc(counters, labels) == counters (+) SetToBag({labels})

\* logger.info / warning / error of api.py
api_log(table, level, message, sink_ok) ==
    IF sink_ok THEN log_message(table, level, "api", message, None) ELSE table

\* db_logger.log_api_metric: one row more in the api_metrics table
log_api_metric(table, endpoint, method, status_code, success) ==
    Append(table, [endpoint |-> endpoint, method |-> method,
                   status_code |-> status_code, success |-> success])

\* what joblib.load and the feature list give
Loaded(class) == [class |-> class]

\* type(model).__name__ if model else "unknown"
model_type(m) == IF m = None THEN "unknown" ELSE m.class

\* the except clause of predict (lines 455-474); a sink that fails makes
\* log_api_metric raise out of the handler, and the framework answers 500
predict_except(e, m, s) ==
    LET counted == inc(inc(s.prometheus, <<"ml_predictions_total", model_type(m), "error">>),
                       <<"api_requests_total", "POST", "/predict", "error">>)
    IN IF ~s.sink_ok
       THEN [status |-> 500, json |-> [error |-> "Internal Server Error"],
             prometheus |-> counted, api_metrics |-> s.api_metrics, logs |-> s.logs]
       ELSE [status |-> 500, json |-> [error |-> e],
             prometheus |-> counted,
             api_metrics |-> log_api_metric(s.api_metrics, "/predict", "POST", 500, FALSE),
             logs |-> api_log(s.logs, "ERROR", "Error making prediction", s.sink_ok)]

\* Whether the body passes HousingFeatures(**data) without an exception
validated(body) == body.kind = "object" /\ field_errors(body.data) = {}

RECURSIVE inc_each(_, _)
inc_each(counters, fields) ==
    IF fields = {} THEN counters
    ELSE LET f == CHOOSE x \in fields : TRUE
         IN inc_each(inc(counters, <<"input_validation_errors_total", f>>), fields \ {f})

\* predict: the response and the state it leaves.  m, sc, fn are the globals
\* model, scaler and feature_names; s holds the counters, the two tables and
\* whether the sink accepts writes; predict_raises says whether lines 411-415
\* raise (a validated feature that is not among feature_names, the scaler)
predict(body, m, sc, fn, s, predict_raises) ==
    LET unchanged(status, json) ==
            [status |-> status, json |-> json, prometheus |-> s.prometheus,
             api_metrics |-> s.api_metrics, logs |-> s.logs]
        s1 == [s EXCEPT !.logs = api_log(@, "INFO", "Prediction request validated",
                                         s.sink_ok)]
    IN IF body.kind = "invalid_json"
       THEN unchanged(400, [error |-> "Invalid JSON format"])
       ELSE IF body.kind = "null"
       THEN unchanged(400, [error |-> "No JSON data provided"])
       ELSE IF body.kind # "object"
       THEN predict_except("TypeError: argument after ** must be a mapping", m, s)
       ELSE IF field_errors(body.data) # {}
       THEN [status |-> 400,
             json |-> [error |-> "Input validation failed",
                       validation_errors |-> field_errors(body.data)],
             prometheus |->
                 inc(inc_each(s.prometheus, field_errors(body.data)),
                     <<"api_requests_total", "POST", "/predict", "validation_error">>),
             api_metrics |-> s.api_metrics, logs |-> s.logs]
       ELSE IF m = None \/ sc = None \/ fn = None
       THEN [unchanged(500, [error |-> "Model not properly loaded"])
                 EXCEPT !.logs = s1.logs]
       ELSE IF predict_raises
       THEN predict_except("prediction failed", m, s1)
       ELSE IF ~s.sink_ok
       THEN predict_except("sqlite3.OperationalError",
                           m, [s1 EXCEPT !.prometheus =
                                   inc(inc(inc(@, <<"ml_prediction_duration_seconds">>),
                                           <<"ml_predictions_total", model_type(m), "success">>),
                                       <<"api_requests_total", "POST", "/predict", "success">>)])
       ELSE [status |-> 200,
             json |-> [prediction |-> "float", input |-> body.data,
                       model_type |-> model_type(m)],
             prometheus |->
                 inc(inc(inc(s.prometheus, <<"ml_prediction_duration_seconds">>),
                         <<"ml_predictions_total", model_type(m), "success">>),
                     <<"api_requests_total", "POST", "/predict", "success">>),
             api_metrics |-> log_api_metric(s.api_metrics, "/predict", "POST", 200, TRUE),
             logs |-> api_log(s1.logs, "INFO", "Prediction made", s.sink_ok)]

\* load_model_and_scaler: the globals and the logs table after it, and whether
\* it raised; the arguments say which of the files exist
load_model_and_scaler(m, sc, fn, table, model_exists, scaler_exists, sink_ok) ==
    LET t1 == api_log(table, "INFO", "Model loaded", sink_ok)
        t2 == api_log(t1, "INFO", "Scaler loaded", sink_ok)
    IN IF ~model_exists
       THEN [model |-> m, scaler |-> sc, feature_names |-> fn, raised |-> TRUE,
             logs |-> api_log(table, "ERROR", "Error loading model or scaler", sink_ok)]
       ELSE IF ~scaler_exists
       THEN [model |-> Loaded("RandomForestRegressor"), scaler |-> sc, feature_names |-> fn,
             raised |-> TRUE,
             logs |-> api_log(t1, "ERROR", "Error loading model or scaler", sink_ok)]
       ELSE [model |-> Loaded("RandomForestRegressor"), scaler |-> Loaded("StandardScaler"),
             feature_names |-> Loaded("list"), raised |-> FALSE,
             logs |-> api_log(t2, "INFO", "Feature names loaded", sink_ok)]

\* SQLite's LIMIT: a negative value puts no upper bound on the rows returned
sql_limit(rows, limit) ==
    IF limit < 0 THEN rows ELSE SubSeq(rows, 1, Min(limit, Len(rows)))

\* ORDER BY timestamp DESC
newest_first(rows) == [i \in 1..Len(rows) |-> rows[Len(rows) + 1 - i]]

\* a filter of a query: None, or the value a column has to equal
Filter(v) == [eq |-> v]
Passes(filter, v) == filter = None \/ filter.eq = v

\* InMemoryDatabaseLogger.get_logs / get_api_metrics / get_model_metrics
get_logs(table, level, module, limit) ==
    LET Test(r) == Passes(level, r.level) /\ Passes(module, r.module)
    IN sql_limit(newest_first(SelectSeq(table, Test)), limit)
get_api_metrics(table, endpoint, limit) ==
    LET Test(r) == Passes(endpoint, r.endpoint)
    IN sql_limit(newest_first(SelectSeq(table, Test)), limit)
get_model_metrics(table, limit) == sql_limit(newest_first(table), limit)

\* the limit query parameter: absent, the text of an integer, or other text
NoLimit == None
IntText(n) == [int |-> n]
OtherText == [text |-> "ten"]

\* min(int(request.args.get("limit", 100)), 1000), for text int() accepts
capped_limit(arg) == Min(IF arg = None THEN DefaultLimit ELSE arg.int, MaxLimit)

\* the three query endpoints: the response and the logs table after it
query_failed(table, message, sink_ok) ==
    [status |-> 500, json |-> [success |-> FALSE, error |-> "invalid literal for int()"],
     logs |-> api_log(table, "ERROR", message, sink_ok)]
IsInt(arg) == arg = None \/ "int" \in DOMAIN arg

logs_endpoint(table, level, module, arg, sink_ok) ==
    IF ~IsInt(arg)
    THEN query_failed(table, "Error retrieving logs", sink_ok)
    ELSE LET rows == get_logs(table, level, module, capped_limit(arg))
         IN [status |-> 200,
             json |-> [success |-> TRUE, logs |-> rows, total |-> Len(rows),
                       filters |-> [level |-> level, module |-> module,
                                    limit |-> capped_limit(arg)]],
             logs |-> table]
api_metrics_endpoint(metrics, table, endpoint, arg, sink_ok) ==
    IF ~IsInt(arg)
    THEN query_failed(table, "Error retrieving API metrics", sink_ok)
    ELSE LET rows == get_api_metrics(metrics, endpoint, capped_limit(arg))
         IN [status |-> 200,
             json |-> [success |-> TRUE, metrics |-> rows, total |-> Len(rows),
                       filters |-> [endpoint |-> endpoint, limit |-> capped_limit(arg)]],
             logs |-> table]
model_metrics_endpoint(metrics, table, arg, sink_ok) ==
    IF ~IsInt(arg)
    THEN query_failed(table, "Error retrieving model metrics", sink_ok)
    ELSE LET rows == get_model_metrics(metrics, capped_limit(arg))
         IN [status |-> 200,
             json |-> [success |-> TRUE, metrics |-> rows, total |-> Len(rows),
                       filters |-> [limit |-> capped_limit(arg)]],
             logs |-> table]

\* the /predict requests the counters have counted
Requests(counters) ==
    LET counted == {l \in BagToSet(counters) : l[1] = "api_requests_total"}
    IN BagCardinality([l \in counted |-> counters[l]])

\* the table sizes the requests start from, and whether a table has grown by
\* less than MaxLogs rows since
StoredCounts == {0, 2, MaxStored}
Room(table) == \E n \in StoredCounts : n <= Len(table) /\ Len(table) < n + MaxLogs
ServingCanCall == Idle /\ Room(logs) /\ Room(api_metrics) /\ Room(model_metrics)

LoadModelAndScaler(model_exists, scaler_exists, sink_ok) ==
    /\ ServingCanCall
    /\ \E out \in {load_model_and_scaler(model, scaler, feature_names, logs, model_exists,
                                          scaler_exists, sink_ok)} :
          /\ model' = out.model
          /\ scaler' = out.scaler
          /\ feature_names' = out.feature_names
          /\ logs' = out.logs
          /\ result' = [raised |-> out.raised]
    /\ call' = [op |-> "load_model_and_scaler"]
    /\ UNCHANGED <<config, reference_data, baseline_metrics, performance_threshold,
                   metrics_file, trigger_file, now, model_metrics, steps, decided,
                   api_metrics, prometheus, thread_state>>

Predict(body, sink_ok, predict_raises) ==
    /\ ServingCanCall
    /\ Requests(prometheus) < MaxRequests
    /\ \E out \in {predict(body, model, scaler, feature_names,
                            [prometheus |-> prometheus, api_metrics |-> api_metrics,
                             logs |-> logs, sink_ok |-> sink_ok], predict_raises)} :
          /\ result' = [status |-> out.status, json |-> out.json]
          /\ prometheus' = out.prometheus
          /\ api_metrics' = out.api_metrics
          /\ logs' = out.logs
    /\ call' = [op |-> "POST /predict", body |-> body, sink_ok |-> sink_ok,
                predict_raises |-> predict_raises]
    /\ UNCHANGED <<config, reference_data, baseline_metrics, performance_threshold,
                   metrics_file, trigger_file, now, model_metrics, steps, decided,
                   model, scaler, feature_names, thread_state>>

GetLogs(level, module, arg, sink_ok) ==
    /\ ServingCanCall
    /\ \E out \in {logs_endpoint(logs, level, module, arg, sink_ok)} :
          /\ result' = [status |-> out.status, json |-> out.json]
          /\ logs' = out.logs
    /\ call' = [op |-> "GET /logs", limit |-> arg]
    /\ UNCHANGED <<config, reference_data, baseline_metrics, performance_threshold,
                   metrics_file, trigger_file, now, model_metrics, steps, decided,
                   api_state, thread_state>>

GetApiMetrics(endpoint, arg, sink_ok) ==
    /\ ServingCanCall
    /\ \E out \in {api_metrics_endpoint(api_metrics, logs, endpoint, arg, sink_ok)} :
          /\ result' = [status |-> out.status, json |-> out.json]
          /\ logs' = out.logs
    /\ call' = [op |-> "GET /metrics/api", limit |-> arg]
    /\ UNCHANGED <<config, reference_data, baseline_metrics, performance_threshold,
                   metrics_file, trigger_file, now, model_metrics, steps, decided,
                   api_state, thread_state>>

GetModelMetrics(arg, sink_ok) ==
    /\ ServingCanCall
    /\ \E out \in {model_metrics_endpoint(model_metrics, logs, arg, sink_ok)} :
          /\ result' = [status |-> out.status, json |-> out.json]
          /\ logs' = out.logs
    /\ call' = [op |-> "GET /metrics/models", limit |-> arg]
    /\ UNCHANGED <<config, reference_data, baseline_metrics, performance_threshold,
                   metrics_file, trigger_file, now, model_metrics, steps, decided,
                   api_state, thread_state>>

\* the values a field of a request body takes: below ge, at ge, above le, text
FieldValues(f) == {Number(f.ge - 1), Number(f.ge), Number(f.le + 1), NotANumber}

\* the JSON objects over the fields: any of them absent, any value of each
JsonObjects ==
    UNION {{d \in [{f.name : f \in S} -> UNION {FieldValues(f) : f \in S}] :
               \A f \in S : d[f.name] \in FieldValues(f)} : S \in SUBSET Fields}

PredictBodies == {InvalidJson, JsonNull, JsonList} \cup {JsonObject(d) : d \in JsonObjects}

\* the serving layer from import on, the sink empty
InitPredict ==
    /\ config = default_config
    /\ reference_data = None
    /\ metrics_file = Missing
    /\ baseline_metrics = load_baseline_metrics(metrics_file)
    /\ performance_threshold = MonitorDefaultThreshold
    /\ trigger_file = Missing
    /\ now = MaxAge
    /\ logs = <<>>
    /\ model_metrics = <<>>
    /\ call = None
    /\ result = None
    /\ steps = <<>>
    /\ decided = FALSE
    /\ NotServing

LoadCall ==
    \E model_exists, scaler_exists \in BOOLEAN, sink_ok \in SinkStates :
        LoadModelAndScaler(model_exists, scaler_exists, sink_ok)

PredictCall ==
    /\ ServingCanCall
    /\ \E body \in PredictBodies, sink_ok \in SinkStates, predict_raises \in BOOLEAN :
           Predict(body, sink_ok, predict_raises)

NextPredict ==
    \/ LoadCall
    \/ PredictCall
    \/ Return
    \/ ClearDatabase

SpecPredict == InitPredict /\ [][NextPredict]_vars

\* rows the sink holds from earlier activity
StoredLogs(n) ==
    [i \in 1..n |-> [level |-> IF i % 2 = 0 THEN "ERROR" ELSE "INFO", module |-> "api",
                     message |-> "stored", extra_data |-> None]]
StoredApiMetrics(n) ==
    [i \in 1..n |-> [endpoint |-> "/predict", method |-> "POST",
                     status_code |-> IF i % 2 = 0 THEN 500 ELSE 200,
                     success |-> i % 2 # 0]]
StoredModelMetrics(n) ==
    [i \in 1..n |-> [model_name |-> "RandomForest", model_type |-> "RandomForestRegressor",
                     rmse |-> 50, r2_score |-> 80]]

LimitArgs ==
    {NoLimit, OtherText}
    \cup {IntText(n) : n \in {-1, 0, 1, DefaultLimit, MaxLimit, MaxLimit + 1}}

\* the query endpoints over a sink that holds rows
InitQuery ==
    /\ config = default_config
    /\ reference_data = None
    /\ metrics_file = Missing
    /\ baseline_metrics = load_baseline_metrics(metrics_file)
    /\ performance_threshold = MonitorDefaultThreshold
    /\ trigger_file = Missing
    /\ now = MaxAge
    /\ \E n \in StoredCounts : logs = StoredLogs(n)
    /\ \E n \in StoredCounts : api_metrics = StoredApiMetrics(n)
    /\ \E n \in StoredCounts : model_metrics = StoredModelMetrics(n)
    /\ call = None
    /\ result = None
    /\ steps = <<>>
    /\ decided = FALSE
    /\ model = None
    /\ scaler = None
    /\ feature_names = None
    /\ prometheus = EmptyBag
    /\ threads = <<>>
    /\ lock = None

LogsQuery ==
    /\ ServingCanCall
    /\ \E level \in {None, Filter("ERROR")}, module \in {None, Filter("api")},
          arg \in LimitArgs, sink_ok \in SinkStates :
           GetLogs(level, module, arg, sink_ok)

ApiMetricsQuery ==
    /\ ServingCanCall
    /\ \E endpoint \in {None, Filter("/predict")}, arg \in LimitArgs, sink_ok \in SinkStates :
           GetApiMetrics(endpoint, arg, sink_ok)

ModelMetricsQuery ==
    /\ ServingCanCall
    /\ \E arg \in LimitArgs, sink_ok \in SinkStates : GetModelMetrics(arg, sink_ok)

NextQuery ==
    \/ LogsQuery
    \/ ApiMetricsQuery
    \/ ModelMetricsQuery
    \/ Return
    \/ ClearDatabase

SpecQuery == InitQuery /\ [][NextQuery]_vars

\* the rows a query endpoint answered with
Records(json) == IF "logs" \in DOMAIN json THEN json.logs ELSE json.metrics

\* C23: the query endpoints /logs, /metrics/api and /metrics/models return at
\* most 1000 records for every integer value of the limit parameter, zero and
\* negative values included, and at most limit records when 0 <= limit <= 1000.
C23_AtMostLimitRecords ==
    (/\ call # None
     /\ call.op \in {"GET /logs", "GET /metrics/api", "GET /metrics/models"}
     /\ call.limit # None
     /\ "int" \in DOMAIN call.limit) =>
        /\ result.status = 200
        /\ Len(Records(result.json)) <= MaxLimit
        /\ (0 <= call.limit.int /\ call.limit.int <= MaxLimit) =>
               Len(Records(result.json)) <= call.limit.int

\* C25: in /predict a body that is not valid JSON, or that does not validate
\* against the schema, is answered with HTTP 400 whether or not the model is
\* loaded, and a request to a service whose model is not loaded is answered
\* with HTTP 500 only when its body passed validation.
C25_InvalidBodyIsBadRequest ==
    (Called("POST /predict") /\ call.sink_ok) =>
        /\ ~validated(call.body) => result.status = 400
        /\ (result.status = 500 /\ (model = None \/ scaler = None \/ feature_names = None))
               => validated(call.body)

-----------------------------------------------------------------------------
(* The shared logger under concurrent access: the worker threads call the   *)
(* methods of db_logger, each method runs its statements inside             *)
(* "with self.lock", and the statements of different threads interleave in  *)
(* every order the lock allows.  The connection is in autocommit mode, so   *)
(* each statement takes effect on its own.                                  *)

MaxRecords == 2         \* rows the writes of the threads add between two clears

\* the statements a method runs while it holds the lock
Program(name) ==
    CASE name = "log_message" -> <<"insert logs">>
      [] name = "log_api_metric" -> <<"insert api_metrics">>
      [] name = "log_model_metric" -> <<"insert model_metrics">>
      [] name = "get_logs" -> <<"select logs">>
      [] name = "get_api_metrics" -> <<"select api_metrics">>
      [] name = "get_model_metrics" -> <<"select model_metrics">>
      [] name = "get_database_stats" ->
             <<"count logs", "count api_metrics", "count model_metrics">>
      [] name = "clear_database" ->
             <<"delete logs", "delete api_metrics", "delete model_metrics">>

WriteMethods == {"log_message", "log_api_metric", "log_model_metric"}
QueryMethods == {"get_logs", "get_api_metrics", "get_model_metrics", "get_database_stats"}
Methods == WriteMethods \cup QueryMethods \cup {"clear_database"}

\* "with self.lock": a thread enters when no thread holds the lock
can_acquire_unlocked(l) == TRUE
can_acquire(l) == l = None

\* the tables and the value collected so far, after a statement
execute(stmt, tables, ret) ==
    CASE stmt = "insert logs" ->
             [tables |-> [tables EXCEPT !.logs =
                              log_message(@, "INFO", "worker", "logged", None)],
              ret |-> ret]
      [] stmt = "insert api_metrics" ->
             [tables |-> [tables EXCEPT !.api_metrics =
                              log_api_metric(@, "/health", "GET", 200, TRUE)],
              ret |-> ret]
      [] stmt = "insert model_metrics" ->
             [tables |-> [tables EXCEPT !.model_metrics =
                              log_model_metric(@, "RandomForest", "RandomForestRegressor", 50, 80)],
              ret |-> ret]
      [] stmt = "select logs" ->
             [tables |-> tables, ret |-> [rows |-> get_logs(tables.logs, None, None,
                                                            DefaultLimit)]]
      [] stmt = "select api_metrics" ->
             [tables |-> tables, ret |-> [rows |-> get_api_metrics(tables.api_metrics, None,
                                                                   DefaultLimit)]]
      [] stmt = "select model_metrics" ->
             [tables |-> tables, ret |-> [rows |-> get_model_metrics(tables.model_metrics,
                                                                     DefaultLimit)]]
      [] stmt = "count logs" ->
             [tables |-> tables, ret |-> [logs_by_level |-> Len(tables.logs)]]
      [] stmt = "count api_metrics" ->
             [tables |-> tables,
              ret |-> [logs_by_level |-> ret.logs_by_level,
                       api_metrics |-> Len(tables.api_metrics)]]
      [] stmt = "count model_metrics" ->
             [tables |-> tables,
              ret |-> [logs_by_level |-> ret.logs_by_level, api_metrics |-> ret.api_metrics,
                       total_model_metrics |-> Len(tables.model_metrics)]]
      [] stmt = "delete logs" -> [tables |-> [tables EXCEPT !.logs = <<>>], ret |-> ret]
      [] stmt = "delete api_metrics" ->
             [tables |-> [tables EXCEPT !.api_metrics = <<>>], ret |-> ret]
      [] stmt = "delete model_metrics" ->
             [tables |-> [tables EXCEPT !.model_metrics = <<>>], ret |-> ret]

Tables == [logs |-> logs, api_metrics |-> api_metrics, model_metrics |-> model_metrics]

\* a thread outside every method of the logger
Outside == [at |-> "outside", method |-> "", pc |-> 0, ret |-> None]

\* the writes that have been called and have not inserted their row yet
PendingWrites ==
    Cardinality({t \in DOMAIN threads :
                    /\ threads[t].method \in WriteMethods
                    /\ threads[t].at \in {"waiting", "locked"}
                    /\ threads[t].pc <= 1})

\* thread t calls a method of the logger and reaches its "with self.lock"
CallLogger(t, method) ==
    /\ threads[t].at = "outside"
    /\ method \in WriteMethods =>
           Len(logs) + Len(api_metrics) + Len(model_metrics) + PendingWrites < MaxRecords
    /\ threads' = [threads EXCEPT ![t] = [at |-> "waiting", method |-> method, pc |-> 1,
                                          ret |-> None]]
    /\ UNCHANGED <<config, reference_data, baseline_metrics, performance_threshold,
                   metrics_file, trigger_file, now, logs, model_metrics, call, result,
                   steps, decided, api_state, lock>>

\* thread t enters the with block
AcquireLock(t) ==
    /\ threads[t].at = "waiting"
    /\ can_acquire(lock)
    /\ lock' = [thread |-> t]
    /\ threads' = [threads EXCEPT ![t].at = "locked"]
    /\ UNCHANGED <<config, reference_data, baseline_metrics, performance_threshold,
                   metrics_file, trigger_file, now, logs, model_metrics, call, result,
                   steps, decided, api_state>>

\* thread t runs the next statement of its method
ExecuteStatement(t) ==
    /\ threads[t].at = "locked"
    /\ threads[t].pc <= Len(Program(threads[t].method))
    /\ \E out \in {execute(Program(threads[t].method)[threads[t].pc], Tables,
                           threads[t].ret)} :
          /\ logs' = out.tables.logs
          /\ api_metrics' = out.tables.api_metrics
          /\ model_metrics' = out.tables.model_metrics
          /\ threads' = [threads EXCEPT ![t].pc = @ + 1, ![t].ret = out.ret]
    /\ UNCHANGED <<config, reference_data, baseline_metrics, performance_threshold,
                   metrics_file, trigger_file, now, call, result, steps, decided,
                   model, scaler, feature_names, prometheus, lock>>

\* thread t leaves the with block and the method returns
ReleaseLock(t) ==
    /\ threads[t].at = "locked"
    /\ threads[t].pc > Len(Program(threads[t].method))
    /\ lock' = None
    /\ threads' = [threads EXCEPT ![t] = Outside]
    /\ UNCHANGED <<config, reference_data, baseline_metrics, performance_threshold,
                   metrics_file, trigger_file, now, logs, model_metrics, call, result,
                   steps, decided, api_state>>

InitLogger ==
    /\ config = default_config
    /\ reference_data = None
    /\ metrics_file = Missing
    /\ baseline_metrics = load_baseline_metrics(metrics_file)
    /\ performance_threshold = MonitorDefaultThreshold
    /\ trigger_file = Missing
    /\ now = MaxAge
    /\ logs = <<>>
    /\ model_metrics = <<>>
    /\ call = None
    /\ result = None
    /\ steps = <<>>
    /\ decided = FALSE
    /\ api_metrics = <<>>
    /\ model = None
    /\ scaler = None
    /\ feature_names = None
    /\ prometheus = EmptyBag
    /\ threads = [t \in Threads |-> Outside]
    /\ lock = None

ThreadCalls == \E t \in Threads, method \in Methods : CallLogger(t, method)
ThreadAcquires == \E t \in Threads : AcquireLock(t)
ThreadExecutes == \E t \in Threads : ExecuteStatement(t)
ThreadReleases == \E t \in Threads : ReleaseLock(t)

NextLogger ==
    \/ ThreadCalls
    \/ ThreadAcquires
    \/ ThreadExecutes
    \/ ThreadReleases

SpecLogger == InitLogger /\ [][NextLogger]_vars

\* thread t is inside a with block of the logger
Inside(t) == threads[t].at = "locked"

\* at most one thread is inside a with block
MutualExclusion == \A t, u \in DOMAIN threads : (Inside(t) /\ Inside(u)) => t = u

\* thread t is in clear_database and has emptied some of the tables, not all
MidClear(t) ==
    /\ Inside(t)
    /\ threads[t].method = "clear_database"
    /\ threads[t].pc \in 2..Len(Program("clear_database"))

\* the step is thread t running the statement stmt
Executes(t, stmt) ==
    /\ Inside(t)
    /\ threads[t].pc <= Len(Program(threads[t].method))
    /\ Program(threads[t].method)[threads[t].pc] = stmt
    /\ threads'[t].pc = threads[t].pc + 1

\* the table before and after the step: the same, one row more by an insert
\* of a write method, or emptied by a delete of clear_database
RowsKept(before, after, name) ==
    \/ after = before
    \/ /\ \E t \in DOMAIN threads : Executes(t, "insert " \o name)
       /\ Len(after) = Len(before) + 1
       /\ SubSeq(after, 1, Len(before)) = before
    \/ /\ \E t \in DOMAIN threads : Executes(t, "delete " \o name)
       /\ after = <<>>

\* C24: the database logger is safe for concurrent access: under every
\* interleaving of log_message, log_api_metric, log_model_metric, get_* and
\* clear_database calls of several threads at most one thread is inside an
\* operation at a time, every insert of a write call adds exactly one row to
\* its table and touches no other table, rows stay until a clear_database
\* deletes them, and no query reads a table while a clear_database has
\* emptied only some of the three tables.
C24_LoggerIsThreadSafe ==
    [][/\ MutualExclusion'
       /\ RowsKept(logs, logs', "logs")
       /\ RowsKept(api_metrics, api_metrics', "api_metrics")
       /\ RowsKept(model_metrics, model_metrics', "model_metrics")
       /\ \A t \in DOMAIN threads :
              /\ Executes(t, "insert logs") =>
                     /\ Len(logs') = Len(logs) + 1
                     /\ UNCHANGED <<api_metrics, model_metrics>>
              /\ Executes(t, "insert api_metrics") =>
                     /\ Len(api_metrics') = Len(api_metrics) + 1
                     /\ UNCHANGED <<logs, model_metrics>>
              /\ Executes(t, "insert model_metrics") =>
                     /\ Len(model_metrics') = Len(model_metrics) + 1
                     /\ UNCHANGED <<logs, api_metrics>>
              /\ (\E stmt \in {"select logs", "select api_metrics", "select model_metrics",
                               "count logs", "count api_metrics", "count model_metrics"} :
                      Executes(t, stmt)) =>
                     \A u \in DOMAIN threads : ~MidClear(u)]_vars

\* a clear_database has emptied the logs table and not yet the api_metrics
\* table, which holds a row, while another thread that called a query waits
\* for the lock
C24_Witness ==
    /\ DOMAIN threads = Threads
    /\ \E t, u \in Threads :
          /\ MidClear(t)
          /\ threads[t].pc = 2
          /\ api_metrics # <<>>
          /\ threads[u].at = "waiting"
          /\ threads[u].method \in QueryMethods

-----------------------------------------------------------------------------
(* The reasons of a decision *)

\* the place of a reason in the order the checks of should_retrain run in,
\* 0 for anything that is not one of the five reasons
ReasonRank(r) ==
    IF r = Reason("Data drift detected") THEN 1
    ELSE IF r = Reason("Performance degradation detected") THEN 2
    ELSE IF r = Reason("Insufficient new data for retraining") THEN 3
    ELSE IF DOMAIN r = {"text", "N"} /\ r.text = "Model is N days old" THEN 4
    ELSE IF r = Reason("Automatic retraining is disabled") THEN 5
    ELSE 0

\* C26: in every decision returned by should_retrain the reasons list is an
\* order-preserving sub-list of ["Data drift detected", "Performance
\* degradation detected", "Insufficient new data for retraining", "Model is N
\* days old", "Automatic retraining is disabled"], each reason at most once,
\* whatever calls came before.
C26_ReasonsInCheckOrder ==
    Called("should_retrain") =>
        /\ "reasons" \in DOMAIN result
        /\ \A i \in 1..Len(result.reasons) : ReasonRank(result.reasons[i]) > 0
        /\ \A i, j \in 1..Len(result.reasons) :
               i < j => ReasonRank(result.reasons[i]) < ReasonRank(result.reasons[j])

\* a decision carrying all five reasons
C26_Witness ==
    /\ Called("should_retrain")
    /\ Len(result.reasons) = 5
    /\ Len(logs) > 0

-----------------------------------------------------------------------------
(* Batches that are no worse than the baseline *)

\* the evaluated batch has an RMSE not above and an R2 not below the baseline's
NoWorseThanBaseline ==
    /\ call.metrics.rmse <= baseline_metrics.rmse
    /\ call.metrics.r2 >= baseline_metrics.r2

\* C27: for every baseline with nonzero rmse and nonzero r2 (a negative r2
\* included) and every non-negative threshold, a batch whose RMSE is at most
\* the baseline RMSE and whose R2 is at least the baseline R2 is reported with
\* performance_degraded = false.
C27_NoWorseIsNotDegraded ==
    (/\ Called("evaluate_current_performance")
     /\ BaselinePresent
     /\ "error" \notin DOMAIN result
     /\ baseline_metrics.rmse # 0
     /\ baseline_metrics.r2 # 0
     /\ performance_threshold >= 0
     /\ NoWorseThanBaseline) =>
        result.performance_degraded = FALSE

-----------------------------------------------------------------------------
(* The trigger file after a failed trigger *)

\* the step is a call of trigger_retraining by a caller
Triggered == Idle /\ call' # None /\ call'.op = "trigger_retraining"

\* C28: when trigger_retraining returns a result with status "error", the
\* trigger file on disk is as it was before the call, whichever step failed
\* (directory creation, file write, or the sink write after the file write).
C28_FailedTriggerLeavesFile ==
    [][(Triggered /\ result'.status = "error") => trigger_file' = trigger_file]_vars

-----------------------------------------------------------------------------
(* Drift checks that fail part-way through the columns, called directly and *)
(* from should_retrain                                                      *)

\* batches of one row over the first columns, every KS outcome per column
FailingBatches == DataFrames(SUBSET (1..3), {1})

FailingDriftCheck ==
    /\ CanCall
    /\ \E new_data \in FailingBatches, threshold \in {5, 10} :
           DetectDrift(new_data, threshold, TRUE)

FailingDriftDecision ==
    /\ CanCall
    /\ \E new_data \in FailingBatches :
           ShouldRetrain(new_data, NoArg, NoArg, NoMetrics,
                         [sink_ok |-> TRUE, zero_div_raises |-> FALSE])

NextFailedDrift ==
    \/ FailingDriftCheck
    \/ FailingDriftDecision
    \/ Return
    \/ ClearDatabase

SpecFailedDrift == InitDrift /\ [][NextFailedDrift]_vars

\* the drift report of the state: the result of detect_drift, or the
\* drift_analysis of the decision of should_retrain
ReportOfCall ==
    IF Called("detect_drift") THEN result
    ELSE IF Called("should_retrain") THEN result.drift_analysis
    ELSE None

\* C29: a drift report that carries an error field never has overall_drift =
\* true, also when columns tested before the failure were recorded as
\* drifted, and should_retrain never adds "Data drift detected" from a drift
\* check that failed.
C29_FailedDriftCheckIsNoDrift ==
    (ReportOfCall # None /\ "error" \in DOMAIN ReportOfCall) =>
        /\ Get(ReportOfCall, "overall_drift", FALSE) = FALSE
        /\ Called("should_retrain") =>
               /\ DriftReason \notin Range(result.reasons)
               /\ steps[1] = FALSE

\* should_retrain has run a drift check that failed after more than 20% of
\* the batch's columns had been recorded as drifted
C29_Witness ==
    /\ Called("should_retrain")
    /\ result.drift_analysis # None
    /\ "error" \in DOMAIN result.drift_analysis
    /\ "drifted_features" \in DOMAIN result.drift_analysis
    /\ OverallDrift(Len(result.drift_analysis.drifted_features), call.new_data)

-----------------------------------------------------------------------------
(* The drift report of the two endpoints for one batch *)

\* the drift_analysis that POST /monitoring/retraining-check embeds in its
\* decision for the batch
embedded_drift_analysis(self, file, clock, sink, new_data) ==
    should_retrain(self, file, clock, sink, new_data, NoArg, NoArg, NoMetrics,
                   [sink_ok |-> TRUE, zero_div_raises |-> FALSE]).decision.drift_analysis

\* the report of POST /monitoring/drift for the batch
endpoint_drift_report(self, new_data) ==
    detect_drift(self.reference_data, new_data, DetectDriftDefaultThreshold)

\* two reports classify alike
SameClassification(a, b) ==
    /\ Get(a, "drifted_features", None) = Get(b, "drifted_features", None)
    /\ Get(a, "overall_drift", None) = Get(b, "overall_drift", None)

\* C30: for every config and every non-empty batch, the report returned by
\* /monitoring/drift has the same drifted_features and overall_drift as the
\* drift_analysis in the decision of /monitoring/retraining-check for that
\* batch: both classify with the loaded config's drift_threshold.
C30_EndpointsClassifyAlike ==
    /\ (Called("detect_drift") /\ call.new_data.rows > 0) =>
           SameClassification(result,
                              embedded_drift_analysis(Self, metrics_file, now, Sink,
                                                      call.new_data))
    /\ (Called("should_retrain") /\ call.new_data.rows > 0) =>
           SameClassification(endpoint_drift_report(Self, call.new_data),
                              result.drift_analysis)
=============================================================================
